---- MODULE Spec2Model ----
(***************************************************************************)
(* PyPoE patch server client (PyPoE/poe/patchserver.py): the framed stream *)
(* reader PatchFileList.read, the directory listing PatchFileList          *)
(* .update_filelist and the directory tree DirectoryNodeExtended.          *)
(*                                                                         *)
(* Bytes are naturals 0..255, byte strings are sequences of bytes, Python  *)
(* str values are sequences of code points.  The tree is a heap: a         *)
(* function from node ids to [record, hash, parent, children], so that     *)
(* node identity, the parent back-reference and in-place filling are state.*)
(***************************************************************************)
EXTENDS Integers, Sequences, FiniteSets, TLC

VARIABLES
    nodes,      \* heap of DirectoryNodeExtended objects: id -> node
    data,       \* PatchFileList.data: the bytes of the io.BytesIO stream
    pos,        \* PatchFileList.data.tell(): the stream's cursor
    sockbuf,    \* bytes delivered to the socket and not yet received
    wire,       \* segments the server has sent that are still in flight
    closed,     \* the server has closed its side of the connection
    ncalls,     \* number of operations performed so far
    pc,         \* "init": before PatchFileList.__init__ lists the root;
                \* "ready": constructed; "dead": the constructor raised
    call,       \* record of the last operation (history variable)
    consumed,   \* bytes returned by read since self.data was last replaced
    filled,     \* history: node id -> the item list the server reported in the
                \* sub-frame whose complete decoding filled the node
    dump,       \* the last result of directory.get_dict, with its recurse flag
    loaded,     \* the tree under a new node after load_dict (a heap like nodes)
    patch,      \* the Patch object: patch_url, patch_cdn_url, sock_fd
    os,         \* the descriptors opened on the connection and its shutdowns
    lists,      \* the PatchFileList objects built on the Patch
    threads,    \* the calls of update_filelist in progress, one per thread
    dl,         \* record of the last download_raw (history variable)
    found,      \* record of the last find_template call (history variable)
    cond        \* the WikiCondition object and the calls made on it

\* the Patch, the operating system and the callers around the PatchFileList
sessvars == <<patch, os, lists, threads, dl, found, cond>>

vars == <<nodes, data, pos, sockbuf, wire, closed, ncalls, pc, call, consumed, filled,
          dump, loaded, patch, os, lists, threads, dl, found, cond>>

(***************************** bounds **************************************)
MaxCalls == 3
MaxItems == 2
MaxFolders == 2
MaxDepth == 2
MaxStream == 6
MaxRead == 4

(************************* program constants *******************************)
bufsize == 2048
RecvAttemptsCap == 1
SelectTupleLen == 3
HashLen == 32
SizeLen == 4

None == [tag |-> "None"]
NoParent == -1
NotFound == -1
Root == 0
Slash == 47

_PROTO_PRE == <<3, 0>>
_PROTO_HEADER2 == <<4, 0>>
TagFileBytes == <<0, 0>>
TagDirBytes == <<1, 0>>

(*************************** byte helpers **********************************)
Min(a, b) == IF a <= b THEN a ELSE b

Range(s) == {s[i] : i \in 1..Len(s)}

Take(s, n) == SubSeq(s, 1, Min(n, Len(s)))

Drop(s, n) == SubSeq(s, Min(n, Len(s)) + 1, Len(s))

RECURSIVE Flatten(_)
Flatten(ss) == IF ss = <<>> THEN <<>> ELSE Head(ss) \o Flatten(Tail(ss))

\* int.from_bytes(b, byteorder='big') and struct '>I'
RECURSIVE IntFromBytes(_)
IntFromBytes(b) ==
    IF b = <<>> THEN 0 ELSE IntFromBytes(SubSeq(b, 1, Len(b) - 1)) * 256 + b[Len(b)]

\* the big-endian encoding of n on w bytes (what the server puts on the wire)
RECURSIVE IntToBytes(_, _)
IntToBytes(n, w) ==
    IF w = 0 THEN <<>> ELSE Append(IntToBytes(n \div 256, w - 1), n % 256)

(************************ str <-> UTF-16 ***********************************)
IsHighSurrogate(u) == u >= 55296 /\ u <= 56319
IsLowSurrogate(u) == u >= 56320 /\ u <= 57343

\* the UTF-16 code units of one code point
UnitsOf(cp) ==
    IF cp < 65536 THEN <<cp>>
    ELSE <<55296 + ((cp - 65536) \div 1024), 56320 + ((cp - 65536) % 1024)>>

\* str.encode('utf-16le')
RECURSIVE EncodeUtf16le(_)
EncodeUtf16le(s) ==
    IF s = <<>> THEN <<>>
    ELSE LET us == UnitsOf(Head(s))
         IN Flatten([i \in 1..Len(us) |-> <<us[i] % 256, us[i] \div 256>>])
            \o EncodeUtf16le(Tail(s))

\* the bytes of a sequence of code units, little-endian (the wire format)
UnitsToBytes(us) == Flatten([i \in 1..Len(us) |-> <<us[i] % 256, us[i] \div 256>>])

BytesToUnits(b, bigEndian) ==
    [i \in 1..(Len(b) \div 2) |->
        IF bigEndian THEN b[2 * i - 1] * 256 + b[2 * i]
        ELSE b[2 * i - 1] + b[2 * i] * 256]

DecodeFailed == <<-1>>

\* code units -> code points; a lone surrogate is a UnicodeDecodeError
RECURSIVE DecodeUnits(_)
DecodeUnits(us) ==
    IF us = <<>> THEN <<>>
    ELSE IF IsHighSurrogate(us[1])
    THEN IF Len(us) >= 2 /\ IsLowSurrogate(us[2])
         THEN LET rest == DecodeUnits(SubSeq(us, 3, Len(us)))
              IN IF rest = DecodeFailed THEN DecodeFailed
                 ELSE <<65536 + (us[1] - 55296) * 1024 + (us[2] - 56320)>> \o rest
         ELSE DecodeFailed
    ELSE IF IsLowSurrogate(us[1]) THEN DecodeFailed
    ELSE LET rest == DecodeUnits(Tail(us))
         IN IF rest = DecodeFailed THEN DecodeFailed ELSE <<us[1]>> \o rest

\* bytes.decode('utf-16'): a leading byte order mark FF FE or FE FF is
\* removed and selects the byte order; without one the order is little-endian
DecodeUtf16(b) ==
    IF Len(b) >= 2 /\ b[1] = 255 /\ b[2] = 254
    THEN DecodeUnits(BytesToUnits(Drop(b, 2), FALSE))
    ELSE IF Len(b) >= 2 /\ b[1] = 254 /\ b[2] = 255
    THEN DecodeUnits(BytesToUnits(Drop(b, 2), TRUE))
    ELSE DecodeUnits(BytesToUnits(b, FALSE))

\* str.lower() on the code points used here
Lower(s) == [i \in 1..Len(s) |-> IF s[i] >= 65 /\ s[i] <= 90 THEN s[i] + 32 ELSE s[i]]

\* PyPoE.shared.murmur2.murmur2_32, kept uninterpreted
murmur2_32(b) == [fn |-> "murmur2_32", arg |-> b]

(************************** the directory tree *****************************)
\* VirtualDirectoryRecord(name, hash) and VirtualFileRecord(name, hash, size)
VirtualDirectoryRecord(name, hash) == [tag |-> "PDIR", name |-> name, hash |-> hash]

VirtualFileRecord(name, hash, size) ==
    [tag |-> "FILE", name |-> name, hash |-> hash, data_length |-> size]

\* DirectoryNodeExtended(record, hash, parent): a node starts without children
DirectoryNodeExtended(record, hash, parent) ==
    [record |-> record, hash |-> hash, parent |-> parent, children |-> <<>>]

\* the type check of line 582 left out
IsDirectoryRecordLax(r) == TRUE

IsDirectoryRecord(r) == r.tag = "PDIR"

\* the path's segments: the path is cut at every '/'
RECURSIVE SplitPath(_)
SplitPath(path) ==
    IF path = <<>> THEN <<>>
    ELSE IF \E i \in 1..Len(path) : path[i] = Slash
    THEN LET i == CHOOSE j \in 1..Len(path) :
                     path[j] = Slash /\ \A k \in 1..(j - 1) : path[k] # Slash
         IN IF i = 1 THEN SplitPath(Tail(path))
            ELSE <<SubSeq(path, 1, i - 1)>> \o SplitPath(SubSeq(path, i + 1, Len(path)))
    ELSE <<path>>

\* the first child of node id whose record is named seg, or NotFound
ChildNamed(h, id, seg) ==
    LET cs == h[id].children
        hits == {i \in 1..Len(cs) : h[cs[i]].record # None /\ h[cs[i]].record.name = seg}
    IN IF hits = {} THEN NotFound
       ELSE cs[CHOOSE i \in hits : \A j \in hits : i <= j]

RECURSIVE Descend(_, _, _)
Descend(h, id, segs) ==
    IF segs = <<>> THEN id
    ELSE LET c == ChildNamed(h, id, Head(segs))
         IN IF c = NotFound THEN NotFound ELSE Descend(h, c, Tail(segs))

\* DirectoryNode.__getitem__: self.directory[path]; NotFound is FileNotFoundError
GetItem(h, path) == Descend(h, Root, SplitPath(path))

(********************* the socket and the stream ***************************)
\* The connection as the client sees it.  sock.recv waits until bytes are
\* there, the peer has closed, or the timeout set by settimeout expires.
\* patient says whether a segment still in flight arrives before the timeout.

\* the wait at the start of a recv: a segment in flight may arrive
SockWait(io, patient) ==
    IF io.sockbuf = <<>> /\ io.wire # <<>> /\ patient
    THEN [io EXCEPT !.sockbuf = Head(io.wire), !.wire = Tail(io.wire), !.blocked = TRUE]
    ELSE io

\* what recv does once the wait is over -> [io, bytes, err]
SockTake(io, size, peek) ==
    IF io.sockbuf # <<>>
    THEN [io |-> IF peek THEN io
                 ELSE [io EXCEPT !.sockbuf = Drop(io.sockbuf, size), !.recvs = @ + 1],
          bytes |-> Take(io.sockbuf, size), err |-> "none"]
    ELSE IF io.wire = <<>> /\ io.closed
    THEN [io |-> IF peek THEN io ELSE [io EXCEPT !.recvs = @ + 1],
          bytes |-> <<>>, err |-> "none"]
    ELSE [io |-> [io EXCEPT !.blocked = TRUE], bytes |-> <<>>, err |-> "timeout"]

\* sock.recv(size) and sock.recv(size, MSG_PEEK); err = "timeout" is socket.timeout
SockRecv(io, size, peek, patient) == SockTake(SockWait(io, patient), size, peek)

\* io.BytesIO.read(n): up to n bytes from the cursor, which moves past them
StreamRead(io, n) ==
    [io EXCEPT !.ret = SubSeq(io.data, io.pos + 1, Min(io.pos + n, Len(io.data))),
               !.pos = Min(io.pos + n, Len(io.data))]

\* the seek(data_current) of line 505 left out
RefillNoRewind(r, data_current) == [r.io EXCEPT !.data = @ \o r.bytes]

\* lines 502-507: data_all = all of the stream + sock.recv(bufsize), cursor restored
Refill(r, data_current) ==
    [r.io EXCEPT !.data = @ \o r.bytes, !.pos = data_current]

\* lines 494-499: the check for pending data; select returns a 3-tuple
PendingCheck(peeked, sockets_ready_len) ==
    IF peeked.err # "none" THEN [peeked.io EXCEPT !.err = peeked.err]
    ELSE IF sockets_ready_len < 1 \/ Len(peeked.bytes) < 1
    THEN [peeked.io EXCEPT !.err = "EOFError"]
    ELSE peeked.io

\* lines 492-507 of read: the pending-data check, then the top-up of the buffer
TopUpChecked(io, data_current, patient) ==
    IF io.err # "none" THEN io
    ELSE Refill(SockRecv(io, bufsize, FALSE, patient), data_current)

TopUp(io, data_current, patient) ==
    TopUpChecked(PendingCheck(SockRecv(io, 1, TRUE, patient), SelectTupleLen),
                 data_current, patient)

\* the while loop of read (lines 481-509)
RECURSIVE ReadLoop(_, _, _, _, _)
ReadAttempt(tried, read_length, data_current, recv_attempts, patient) ==
    IF Len(tried.ret) < read_length
    THEN ReadLoop(TopUp([tried EXCEPT !.ret = <<>>], data_current, patient),
                  read_length, data_current, recv_attempts, patient)
    ELSE [tried EXCEPT !.consumed = @ \o tried.ret, !.done = TRUE]

ReadLoop(io, read_length, data_current, recv_attempts, patient) ==
    IF io.err # "none" THEN io
    ELSE IF recv_attempts > RecvAttemptsCap THEN [io EXCEPT !.err = "EOFError"]
    ELSE ReadAttempt([StreamRead(io, read_length) EXCEPT !.attempts = recv_attempts + 1],
                     read_length, data_current, recv_attempts + 1, patient)

\* PatchFileList.read(read_length); the result is in .ret, a failure in .err
Read(io, read_length, patient) ==
    ReadLoop([io EXCEPT !.err = "none", !.ret = <<>>, !.attempts = 0, !.recvs = 0,
                        !.blocked = FALSE, !.done = FALSE],
             read_length, io.pos, 0, patient)

\* lines 528-531: the name's bytes decoded -> [io, name]
VarcharName(io, name) ==
    IF io.err # "none" THEN [io |-> io, name |-> <<>>]
    ELSE IF name = DecodeFailed
    THEN [io |-> [io EXCEPT !.err = "UnicodeDecodeError"], name |-> <<>>]
    ELSE [io |-> io, name |-> name]

VarcharBody(io, patient) ==
    IF io.err # "none" THEN io ELSE Read(io, io.ret[1] * 2, patient)

VarcharDecode(io) == VarcharName(io, IF io.err = "none" THEN DecodeUtf16(io.ret) ELSE <<>>)

VarcharLength(io, patient) ==
    IF io.err = "none" /\ io.ret[1] = 0 THEN [io |-> io, name |-> <<>>]
    ELSE VarcharDecode(VarcharBody(io, patient))

\* PatchFileList.extract_varchar: [io, name]; a failure is in io.err
extract_varchar(io, patient) == VarcharLength(Read(io, 1, patient), patient)

(********************** update_filelist: the request ***********************)
\* lines 569-594: the loop that checks the folders and builds folder_query
RECURSIVE BuildQuery(_, _, _, _)
BuildQuery(h, folders, i, folder_query) ==
    IF i > Len(folders) THEN [err |-> "none", query |-> folder_query]
    ELSE IF folders[i] = <<>>
    THEN IF Len(folders) > 1
         THEN [err |-> "ValueError", query |-> folder_query]
         ELSE BuildQuery(h, folders, i + 1, _PROTO_PRE \o <<0>>)
    ELSE LET n == GetItem(h, folders[i])
         IN IF n = NotFound THEN [err |-> "ValueError", query |-> folder_query]
            ELSE IF ~IsDirectoryRecord(h[n].record)
            THEN [err |-> "ValueError", query |-> folder_query]
            ELSE BuildQuery(h, folders, i + 1,
                            folder_query \o _PROTO_PRE \o <<Len(folders[i])>>
                                \o EncodeUtf16le(folders[i]))

\* the duplicate check of lines 566-567 left out
CheckFoldersNoDup(h, folders) == BuildQuery(h, folders, 1, <<>>)

\* lines 566-594: the checks made before anything is sent
CheckFolders(h, folders) ==
    IF Cardinality(Range(folders)) # Len(folders)
    THEN [err |-> "ValueError", query |-> <<>>]
    ELSE BuildQuery(h, folders, 1, <<>>)

(********************** update_filelist: the response **********************)
\* lines 641-660: size and checksum unpacked, the record and the node built
ItemNode(io, header, name, parent) ==
    IF io.err # "none" THEN [io |-> io, node |-> None]
    ELSE [io |-> io,
          node |-> DirectoryNodeExtended(
              IF header = TagDirBytes
              THEN VirtualDirectoryRecord(name, IntFromBytes(Drop(io.ret, SizeLen)))
              ELSE VirtualFileRecord(name, IntFromBytes(Drop(io.ret, SizeLen)),
                                     IntFromBytes(Take(io.ret, SizeLen))),
              murmur2_32(EncodeUtf16le(Lower(name))),
              parent)]

ItemSizeHash(v, header, parent, patient) ==
    IF v.io.err # "none" THEN [io |-> v.io, node |-> None]
    ELSE ItemNode(Read(v.io, SizeLen + HashLen, patient), header, v.name, parent)

\* the tag test of lines 627-635 without its else branch: an unknown tag is
\* decoded as a file
ItemTagLax(io, parent, patient) ==
    IF io.err # "none" THEN [io |-> io, node |-> None]
    ELSE ItemSizeHash(extract_varchar(io, patient),
                      IF io.ret = TagDirBytes THEN TagDirBytes ELSE TagFileBytes,
                      parent, patient)

\* lines 626-637: the item's type tag, then its name
ItemTag(io, parent, patient) ==
    IF io.err # "none" THEN [io |-> io, node |-> None]
    ELSE IF io.ret # TagFileBytes /\ io.ret # TagDirBytes
    THEN [io |-> [io EXCEPT !.err = "KeyError"], node |-> None]
    ELSE ItemSizeHash(extract_varchar(io, patient), io.ret, parent, patient)

\* lines 626-660: one item of a folder's sub-frame -> [io, node]
DecodeItem(io, parent, patient) == ItemTag(Read(io, 2, patient), parent, patient)

\* lines 623-660: the loop over the items -> [io, nodes]
RECURSIVE DecodeItems(_, _, _, _, _, _)
ItemDone(d, parent, item_count, item, folder_directory_nodes, patient) ==
    IF d.io.err # "none" THEN [io |-> d.io, nodes |-> folder_directory_nodes]
    ELSE DecodeItems(d.io, parent, item_count, item + 1,
                     Append(folder_directory_nodes, d.node), patient)

DecodeItems(io, parent, item_count, item, folder_directory_nodes, patient) ==
    IF item >= item_count THEN [io |-> io, nodes |-> folder_directory_nodes]
    ELSE ItemDone(DecodeItem(io, parent, patient), parent, item_count, item,
                  folder_directory_nodes, patient)

\* the nodes of the subtree under id
RECURSIVE Subtree(_, _)
Subtree(h, id) ==
    {id} \cup UNION {Subtree(h, h[id].children[i]) : i \in 1..Len(h[id].children)}

\* the heap without the nodes that nothing references any more
Collect(h) == [id \in Subtree(h, Root) |-> h[id]]

\* the k smallest ids outside used, ascending
FreshIds(used, k) ==
    [i \in 1..k |->
        CHOOSE x \in (0..(Cardinality(used) + k)) \ used :
            Cardinality({y \in (0..x) \ used : y < x}) = i - 1]

\* the nodes new added behind the children the parent has
AttachAppending(h, ids, parent, new) ==
    Collect([id \in DOMAIN h \cup Range(ids) |->
                IF id \in Range(ids)
                THEN new[CHOOSE i \in 1..Len(new) : ids[i] = id]
                ELSE IF id = parent THEN [h[id] EXCEPT !.children = @ \o ids]
                ELSE h[id]])

\* parent.children = the nodes new, placed at ids
Attach(h, ids, parent, new) ==
    Collect([id \in DOMAIN h \cup Range(ids) |->
                IF id \in Range(ids)
                THEN new[CHOOSE i \in 1..Len(new) : ids[i] = id]
                ELSE IF id = parent THEN [h[id] EXCEPT !.children = ids]
                ELSE h[id]])

\* the new nodes given to the root, whichever folder was listed
AssignChildrenToRoot(h, used, parent, new) ==
    Attach(h, FreshIds(used, Len(new)), Root, new)

\* parent.children = folder_directory_nodes: the new nodes are new objects
\* (ids not in used); the nodes that were the children lose their last
\* reference and leave the heap with their subtrees
AssignChildren(h, used, parent, new) ==
    Attach(h, FreshIds(used, Len(new)), parent, new)

\* the assignment of line 662 made inside the loop, so also before a failure
AfterItemsEager(h, used, parent, d) == AssignChildren(h, used, parent, d.nodes)

\* line 662 comes after the loop: it is reached only if every item was decoded
AfterItems(h, used, parent, d) ==
    IF d.io.err = "none" THEN AssignChildren(h, used, parent, d.nodes) ELSE h

\* st after the items of one folder: [io, h, used, targets]
FolderDone(st, parent, d, h2) ==
    [io |-> d.io, h |-> h2, used |-> st.used \cup DOMAIN h2,
     targets |-> IF d.io.err = "none" THEN Append(st.targets, parent) ELSE st.targets]

FolderAssign(st, parent, d) == FolderDone(st, parent, d, AfterItems(st.h, st.used, parent, d))

\* line 621: parent = self.directory[folder], then the items
FolderItems(st, io, parent, patient) ==
    IF io.err # "none" THEN [st EXCEPT !.io = io]
    ELSE IF parent = NotFound
    THEN [st EXCEPT !.io = [io EXCEPT !.err = "FileNotFoundError"]]
    ELSE FolderAssign(st, parent,
                      DecodeItems(io, parent, IntFromBytes(io.ret), 0, <<>>, patient))

\* the node looked up under the name the server sent
ListedPathEchoed(folder, folder_name) == folder_name

\* lines 614 and 621: folder_name is read from the sub-frame and printed;
\* parent = self.directory[folder] looks up the path that was requested
ListedPath(folder, folder_name) == folder

\* line 616: item_count
FolderCount(st, v, folder, patient) ==
    IF v.io.err # "none" THEN [st EXCEPT !.io = v.io]
    ELSE FolderItems(st, Read(v.io, 4, patient),
                     GetItem(st.h, ListedPath(folder, v.name)), patient)

\* lines 606-614: the sub-frame's header, then the folder's name
FolderHeader(st, io, folder, patient) ==
    IF io.err # "none" THEN [st EXCEPT !.io = io]
    ELSE IF io.ret # _PROTO_HEADER2 THEN [st EXCEPT !.io = [io EXCEPT !.err = "KeyError"]]
    ELSE FolderCount(st, extract_varchar(io, patient), folder, patient)

\* lines 605-662: one folder's sub-frame; st = [io, h, used, targets]
DecodeFolder(st, folder, patient) ==
    FolderHeader(st, Read(st.io, 2, patient), folder, patient)

\* line 604: for folder in folders
RECURSIVE DecodeFolders(_, _, _, _)
FolderNext(st, folders, i, patient) ==
    IF st.io.err # "none" THEN st ELSE DecodeFolders(st, folders, i + 1, patient)

DecodeFolders(st, folders, i, patient) ==
    IF i > Len(folders) THEN st
    ELSE FolderNext(DecodeFolder(st, folders[i], patient), folders, i, patient)

\* the first receive added behind the bytes self.data holds
FirstRecvKeeping(first, h) ==
    [io |-> IF first.err # "none" THEN [first.io EXCEPT !.err = first.err]
            ELSE [first.io EXCEPT !.data = @ \o first.bytes, !.consumed = <<>>],
     h |-> h, used |-> DOMAIN h, targets |-> <<>>]

\* lines 599-602: the first receive replaces self.data
FirstRecv(first, h) ==
    [io |-> IF first.err # "none" THEN [first.io EXCEPT !.err = first.err]
            ELSE [first.io EXCEPT !.data = first.bytes, !.pos = 0, !.consumed = <<>>],
     h |-> h, used |-> DOMAIN h, targets |-> <<>>]

\* lines 596-662: the request is sent, the first receive replaces self.data,
\* then the sub-frames are decoded; io is the connection after the server's
\* answer has been put on the wire
Exchange(io, h, folders, patient) ==
    FolderNext(FirstRecv(SockRecv(io, bufsize, FALSE, patient), h), folders, 0, patient)

(**************************** the server ***********************************)
\* What the server may report: an item is [type, name, size, hash], name
\* being the UTF-16 code units it puts on the wire.  68 is 'D', 97 is 'a',
\* 65279 is U+FEFF.
Items ==
    { [type |-> TagDirBytes, name |-> <<68>>, size |-> 0, hash |-> 2],
      [type |-> TagFileBytes, name |-> <<65279, 97>>, size |-> 10, hash |-> 1] }

RECURSIVE SeqsUpTo(_, _)
SeqsUpTo(S, n) ==
    IF n = 0 THEN {<<>>}
    ELSE LET shorter == SeqsUpTo(S, n - 1)
         IN shorter \cup {Append(q, x) : q \in {r \in shorter : Len(r) = n - 1}, x \in S}

Listings == SeqsUpTo(Items, MaxItems)

\* How the server answers: completely in one segment ("ok") or in two
\* ("split1", "splitEnd"); with a wrong header, a wrong item tag or an item
\* count one too high in sub-frame k; with another folder name than the
\* requested one in sub-frame k ("echo"); without the last byte and closing
\* ("hangup"); or not at all ("silent").
Behaviours ==
    {"ok", "split1", "splitEnd", "header", "tag", "count", "echo", "hangup", "silent"}

\* the folder name the server writes into a sub-frame; 120 is 'x'
EchoedName(folder, fault) == IF fault = "echo" THEN folder \o <<120>> ELSE folder

ItemBytes(it, badTag) ==
    (IF badTag THEN <<2, 0>> ELSE it.type) \o <<Len(it.name)>> \o UnitsToBytes(it.name)
        \o IntToBytes(it.size, SizeLen) \o IntToBytes(it.hash, HashLen)

\* one response sub-frame for folder, listing its items; fault damages it
FrameBytes(folder, items, fault) ==
    (IF fault = "header" THEN <<5, 0>> ELSE _PROTO_HEADER2)
        \o <<Len(EncodeUtf16le(EchoedName(folder, fault))) \div 2>>
        \o EncodeUtf16le(EchoedName(folder, fault))
        \o IntToBytes(Len(items) + (IF fault = "count" THEN 1 ELSE 0), 4)
        \o Flatten([i \in 1..Len(items) |-> ItemBytes(items[i], fault = "tag" /\ i = 1)])

\* the whole answer as segments: one sub-frame per folder, the fault in sub-frame k
ResponseSegments(folders, frames, how, k) ==
    LET all == Flatten([i \in 1..Len(folders) |->
                   FrameBytes(folders[i], frames[i], IF i = k THEN how ELSE "none")])
        cut(c) == IF c >= 1 /\ c < Len(all) THEN <<Take(all, c), Drop(all, c)>> ELSE <<all>>
    IN IF how = "silent" \/ all = <<>> THEN <<>>
       ELSE IF how = "hangup" THEN SubSeq(cut(Len(all) - 1), 1, 1)
       ELSE IF how = "split1" THEN cut(1)
       ELSE IF how = "splitEnd" THEN cut(Len(all) - 1)
       ELSE <<all>>

(************************* paths a caller may pass *************************)
SegNames == {<<68>>, <<97>>}

RECURSIVE PathsUpTo(_)
PathsUpTo(d) ==
    IF d = 0 THEN {<<>>}
    ELSE SegNames \cup PathsUpTo(d - 1)
         \cup {p \o <<Slash>> \o n : p \in (PathsUpTo(d - 1) \ {<<>>}), n \in SegNames}

Paths == PathsUpTo(MaxDepth)

FolderLists == SeqsUpTo(Paths, MaxFolders)

\* what is wrong with a list of folders, judged on the arguments and the tree
HasDuplicates(folders) == \E i, j \in 1..Len(folders) : i < j /\ folders[i] = folders[j]

RootMixed(folders) == Len(folders) > 1 /\ \E i \in 1..Len(folders) : folders[i] = <<>>

ResolvesToFile(h, p) == GetItem(h, p) # NotFound /\ h[GetItem(h, p)].record.tag = "FILE"

ResolvesToDirectory(h, p) ==
    GetItem(h, p) # NotFound /\ h[GetItem(h, p)].record.tag = "PDIR"

Flaws(h, folders) ==
    [dup |-> HasDuplicates(folders),
     rootMixed |-> RootMixed(folders),
     file |-> \E i \in 1..Len(folders) : folders[i] # <<>> /\ ResolvesToFile(h, folders[i]),
     unknown |-> \E i \in 1..Len(folders) :
                    folders[i] # <<>> /\ GetItem(h, folders[i]) = NotFound]

(***************** the Patch, the descriptors, the callers *****************)
NoFd == -1

\* before Patch.__init__: no Patch, no descriptor, no PatchFileList, no call
NoPatch == [state |-> "none", patch_url |-> <<>>, patch_cdn_url |-> <<>>,
            sock_fd |-> NoFd, err |-> "none", reply |-> <<>>, received |-> <<>>,
            urls |-> <<>>, sent |-> <<>>, steps |-> <<>>, raised |-> "none",
            seen |-> "none"]

InitSession ==
    /\ patch = NoPatch
    /\ os = [handles |-> <<>>, shutdowns |-> 0]
    /\ lists = <<>>
    /\ threads = <<>>
    /\ dl = [op |-> "none"]
    /\ found = [op |-> "none"]
    /\ cond = [op |-> "none"]

(***************************** the state ***********************************)
IO == [data |-> data, pos |-> pos, sockbuf |-> sockbuf, wire |-> wire,
       closed |-> closed, consumed |-> consumed,
       err |-> "none", ret |-> <<>>, attempts |-> 0, recvs |-> 0, blocked |-> FALSE,
       done |-> FALSE]

NoFlaws == [dup |-> FALSE, rootMixed |-> FALSE, file |-> FALSE, unknown |-> FALSE]

NoCall == [op |-> "none", folders |-> <<>>, err |-> "none", frames |-> <<>>,
           targets |-> <<>>, sent |-> <<>>, flaws |-> NoFlaws,
           how |-> "none", k |-> 0, dropped |-> {}]

Init ==
    /\ nodes = [id \in {Root} |-> DirectoryNodeExtended(None, None, NoParent)]
    /\ data = <<>>
    /\ pos = 0
    /\ sockbuf = <<>>
    /\ wire = <<>>
    /\ closed = FALSE
    /\ ncalls = 0
    /\ pc = "init"
    /\ call = NoCall
    /\ consumed = <<>>
    /\ filled = <<>>
    /\ dump = None
    /\ loaded = None
    /\ InitSession

\* the history of complete sub-frames: target i was filled from frames[i]
RECURSIVE Record(_, _, _, _)
Record(f, targets, frames, i) ==
    IF i > Len(targets) THEN f
    ELSE Record([id \in DOMAIN f \cup {targets[i]} |->
                    IF id = targets[i] THEN frames[i] ELSE f[id]],
                targets, frames, i + 1)

\* the request written folder by folder while the folders are still checked
RejectedAfterSend(folders, err) ==
    /\ call' = [NoCall EXCEPT !.op = "update_filelist", !.err = err,
                               !.flaws = Flaws(nodes, folders),
                               !.sent = _PROTO_PRE \o <<0>>]
    /\ pc' = IF pc = "init" THEN "dead" ELSE pc
    /\ UNCHANGED <<nodes, data, pos, sockbuf, wire, closed, consumed, filled, dump, loaded, sessvars>>

\* the call raised before anything was sent
Rejected(folders, err) ==
    /\ call' = [NoCall EXCEPT !.op = "update_filelist", !.err = err,
                               !.flaws = Flaws(nodes, folders)]
    /\ pc' = IF pc = "init" THEN "dead" ELSE pc
    /\ UNCHANGED <<nodes, data, pos, sockbuf, wire, closed, consumed, filled, dump, loaded, sessvars>>

\* the state after the exchange st; how and k record what the server did,
\* dropped the nodes that were in the tree before the call and are not any more
Answered(folders, frames, query, how, k, st) ==
    /\ nodes' = st.h
    /\ data' = st.io.data
    /\ pos' = st.io.pos
    /\ sockbuf' = st.io.sockbuf
    /\ wire' = st.io.wire
    /\ closed' = st.io.closed
    /\ consumed' = st.io.consumed
    /\ filled' = [id \in (DOMAIN filled \cup Range(st.targets)) \cap DOMAIN st.h |->
                     Record(filled, st.targets, frames, 1)[id]]
    /\ pc' = IF st.io.err = "none" THEN "ready"
             ELSE IF pc = "init" THEN "dead" ELSE "desync"
    /\ call' = [op |-> "update_filelist", folders |-> folders,
                err |-> st.io.err, frames |-> frames,
                targets |-> st.targets, sent |-> query,
                flaws |-> Flaws(nodes, folders),
                how |-> how, k |-> k,
                dropped |-> {nodes[id] : id \in DOMAIN nodes \ DOMAIN st.h}]
    /\ UNCHANGED <<dump, loaded, sessvars>>

\* the exchange in which the server answers with frames, behaving as how says
AnswerTo(folders, frames, how, k) ==
    Exchange([IO EXCEPT !.wire = wire \o ResponseSegments(folders, frames, how, k),
                        !.closed = closed \/ how = "hangup"],
             nodes, folders, TRUE)

\* lines 596-662 with the server's answer: its frames and its behaviour
Answer(folders, query) ==
    \E frames \in [1..Len(folders) -> Listings], how \in Behaviours,
       k \in 1..Len(folders) :
        Answered(folders, frames, query, how, k, AnswerTo(folders, frames, how, k))

Checked(folders, chk) ==
    IF chk.err # "none" THEN Rejected(folders, chk.err) ELSE Answer(folders, chk.query)

\* PatchFileList.update_filelist(folders), whole: the checks, the request,
\* the server's answer and the decoding
update_filelist(folders) == Checked(folders, CheckFolders(nodes, folders))

\* PatchFileList.__init__ (lines 440-443): the root node exists, the root is listed
Construct ==
    /\ pc = "init"
    /\ ncalls' = ncalls + 1
    /\ update_filelist(<<<<>>>>)

\* a later call by the owner of the PatchFileList; after a call has failed
\* on the connection the framing position is undefined and the connection
\* is not used again
ListFolders ==
    /\ pc = "ready"
    /\ ncalls < MaxCalls
    /\ ncalls' = ncalls + 1
    /\ \E folders \in FolderLists : update_filelist(folders)

\* a segment in flight reaches the socket between two calls
Deliver ==
    /\ wire # <<>>
    /\ sockbuf' = sockbuf \o Head(wire)
    /\ wire' = Tail(wire)
    /\ UNCHANGED <<nodes, data, pos, closed, ncalls, pc, call, consumed, filled, dump, loaded, sessvars>>

Next == Construct \/ ListFolders \/ Deliver

Spec == Init /\ [][Next]_vars

(************* the reader alone: PatchFileList.read on a stream ************)
\* The server sends the bytes 1, 2, ..., n (each byte is its own position in
\* the stream) cut into segments in every possible way.

\* the ways to cut b into non-empty segments
RECURSIVE Cuts(_)
Cuts(b) ==
    IF b = <<>> THEN {<<>>}
    ELSE UNION {{<<Take(b, c)>> \o rest : rest \in Cuts(Drop(b, c))} : c \in 1..Len(b)}

Numbered(n) == [i \in 1..n |-> i]

InitRead ==
    /\ nodes = [id \in {Root} |-> DirectoryNodeExtended(None, None, NoParent)]
    /\ data = <<>>
    /\ pos = 0
    /\ sockbuf = <<>>
    /\ wire \in UNION {Cuts(Numbered(n)) : n \in 1..MaxStream}
    /\ closed = FALSE
    /\ ncalls = 0
    /\ pc = "init"
    /\ call = NoCall
    /\ consumed = <<>>
    /\ filled = <<>>
    /\ dump = None
    /\ loaded = None
    /\ InitSession

IoVars(io) ==
    /\ data' = io.data
    /\ pos' = io.pos
    /\ sockbuf' = io.sockbuf
    /\ wire' = io.wire
    /\ closed' = io.closed
    /\ consumed' = io.consumed

\* lines 599-602 of update_filelist: the first receive becomes self.data
FirstReceived(st) ==
    /\ IoVars(st.io)
    /\ pc' = IF st.io.err = "none" THEN "ready" ELSE "desync"
    /\ call' = [op |-> "recv", err |-> st.io.err]
    /\ UNCHANGED <<nodes, ncalls, filled, dump, loaded, sessvars>>

StartListing ==
    /\ pc = "init"
    /\ \E patient \in BOOLEAN : FirstReceived(FirstRecv(SockRecv(IO, bufsize, FALSE, patient), nodes))

\* one self.read(n) of the decoding; starved: the buffer is short of n bytes
\* and nothing is pending on the connection or still to arrive
ReadReturned(n, io) ==
    /\ IoVars(io)
    /\ pc' = IF io.err = "none" THEN "ready" ELSE "desync"
    /\ call' = [op |-> "read", n |-> n, err |-> io.err, ret |-> io.ret,
                attempts |-> io.attempts, recvs |-> io.recvs, blocked |-> io.blocked,
                pos0 |-> pos, short |-> Len(data) - pos < n,
                starved |-> Len(data) - pos < n /\ sockbuf = <<>> /\ wire = <<>>]
    /\ ncalls' = ncalls + 1
    /\ UNCHANGED <<nodes, filled, dump, loaded, sessvars>>

ReadStep ==
    /\ pc = "ready"
    /\ \E n \in 1..MaxRead, patient \in BOOLEAN : ReadReturned(n, Read(IO, n, patient))

\* the server closes the connection; what it sent before still arrives
Hangup ==
    /\ ~closed
    /\ closed' = TRUE
    /\ UNCHANGED <<nodes, data, pos, sockbuf, wire, ncalls, pc, call, consumed, filled, dump, loaded, sessvars>>

NextRead == StartListing \/ ReadStep \/ Deliver \/ Hangup

SpecRead == InitRead /\ [][NextRead]_vars

(****************** get_dict and load_dict (lines 711-841) *****************)
\* A mapping is [kind, items]: kind says what Python object it is, items is
\* the record of its keys.  Names and hash strings are sequences of characters.
OrderedDict(m) == [kind |-> "OrderedDict", items |-> m]

\* 'ROOT'
ROOT == <<82, 79, 79, 84>>

HashHexLen == 64

HexDigit(d) == IF d < 10 THEN 48 + d ELSE 87 + d

\* hexadecimal digit k of n, counted from the right; the integers of the
\* model are below 16^8, so every digit from k = 8 on is 0
Nibble(n, k) == IF k >= 8 THEN 0 ELSE (n \div (16 ^ k)) % 16

\* format(n, '0<w>x'): w lower-case hexadecimal digits, zero-padded
FormatHex(n, w) == [i \in 1..w |-> HexDigit(Nibble(n, w - i))]

HexValue(c) ==
    IF c \in 48..57 THEN c - 48
    ELSE IF c \in 97..102 THEN c - 87
    ELSE IF c \in 65..70 THEN c - 55
    ELSE -1

IsHex(str) == str # <<>> /\ \A i \in 1..Len(str) : HexValue(str[i]) >= 0

\* hi followed by k more digits worth lo
JoinHex(hi, lo, k) == IF hi = 0 THEN lo ELSE hi * (16 ^ k) + lo

\* int(str, 16) on a string of hexadecimal digits
RECURSIVE ParseHex(_)
ParseHex(str) ==
    IF str = <<>> THEN 0
    ELSE IF Len(str) = 1 THEN HexValue(str[1])
    ELSE JoinHex(ParseHex(Take(str, Len(str) \div 2)),
                 ParseHex(Drop(str, Len(str) \div 2)),
                 Len(str) - Len(str) \div 2)

\* lines 746-758: the keys written for the node's own record
RecordDict(r) ==
    IF r.tag = "PDIR"
    THEN [name |-> r.name, hash |-> FormatHex(r.hash, HashHexLen), type |-> "folder"]
    ELSE IF r.tag = "FILE"
    THEN [name |-> r.name, hash |-> FormatHex(r.hash, HashHexLen), type |-> "file",
          size |-> r.data_length]
    ELSE [name |-> ROOT]

\* line 764: record_dict['children'] = children
WithChildren(m, children) ==
    [k \in DOMAIN m \cup {"children"} |-> IF k = "children" THEN children ELSE m[k]]

\* the test of lines 760-761 passing for every node that has a child
EmitsChildrenAny(h, id, recurse) == recurse /\ Len(h[id].children) > 0

\* lines 760-761: if recurse is True: if len(self.children) > 1
EmitsChildren(h, id, recurse) == recurse /\ Len(h[id].children) > 1

\* DirectoryNodeExtended.get_dict(recurse) of node id
RECURSIVE get_dict(_, _, _)
get_dict(h, id, recurse) ==
    OrderedDict(
        IF EmitsChildren(h, id, recurse)
        THEN WithChildren(RecordDict(h[id].record),
                          [i \in 1..Len(h[id].children) |->
                              get_dict(h, h[id].children[i], TRUE)])
        ELSE RecordDict(h[id].record))

\* lines 794-821: temp_record and node_hash from the keys -> [err, record, hash].
\* A node's hash attribute holds None, an int or a str: node_hash is written
\* [int |-> n], a name stored as hash [str |-> name].
LoadRecord(m) ==
    IF "name" \notin DOMAIN m
    THEN [err |-> "KeyError", record |-> None, hash |-> None]
    ELSE IF m.name = ROOT THEN [err |-> "none", record |-> None, hash |-> None]
    ELSE IF "type" \notin DOMAIN m \/ "hash" \notin DOMAIN m
    THEN [err |-> "KeyError", record |-> None, hash |-> None]
    ELSE IF ~IsHex(m.hash) THEN [err |-> "ValueError", record |-> None, hash |-> None]
    ELSE IF m.type = "file"
    THEN IF "size" \notin DOMAIN m
         THEN [err |-> "KeyError", record |-> None, hash |-> None]
         ELSE [err |-> "none",
               record |-> VirtualFileRecord(m.name, ParseHex(m.hash), m.size),
               hash |-> [int |-> ParseHex(m.hash)]]
    ELSE IF m.type = "folder"
    THEN [err |-> "none", record |-> VirtualDirectoryRecord(m.name, ParseHex(m.hash)),
          hash |-> [int |-> ParseHex(m.hash)]]
    ELSE [err |-> "KeyError", record |-> None, hash |-> None]

\* lines 829-833: a new node c with hash=node_name, appended to parent.children
LoadNew(h, c, name, r, parent) ==
    [h |-> [id \in DOMAIN h \cup {c} |->
               IF id = c THEN DirectoryNodeExtended(r.record, [str |-> name], parent)
               ELSE IF id = parent THEN [h[id] EXCEPT !.children = Append(@, c)]
               ELSE h[id]],
     child_node |-> c]

\* lines 823-833: without a parent the node itself takes the record
LoadPlace(h, self, name, r, parent) ==
    IF parent = NoParent
    THEN [h |-> [h EXCEPT ![self].record = r.record, ![self].hash = r.hash,
                          ![self].parent = NoParent],
          child_node |-> self]
    ELSE LoadNew(h, FreshIds(DOMAIN h, 1)[1], name, r, parent)

\* lines 840-841: except KeyError: pass
Swallow(st) == IF st.err = "KeyError" THEN [st EXCEPT !.err = "none"] ELSE st

RECURSIVE load_dict(_, _, _, _)
RECURSIVE LoadChildren(_, _, _, _)
\* lines 838-839: for child in node_children; an exception ends the loop
LoadChildren(st, node_children, i, child_node) ==
    IF i > Len(node_children) \/ st.err # "none" THEN st
    ELSE LoadChildren(load_dict(st, child_node, node_children[i], child_node),
                      node_children, i + 1, child_node)

\* lines 835-841: the children, if the mapping has any
LoadPlaced(p, m) ==
    IF "children" \in DOMAIN m
    THEN Swallow(LoadChildren([h |-> p.h, err |-> "none"], m.children, 1, p.child_node))
    ELSE [h |-> p.h, err |-> "none"]

LoadChecked(st, self, m, parent, r) ==
    IF r.err # "none" THEN [st EXCEPT !.err = r.err]
    ELSE LoadPlaced(LoadPlace(st.h, self, m.name, r, parent), m)

\* self.load_dict(node_dict, parent) on the heap st.h -> [h, err];
\* parent = NoParent is parent=None
load_dict(st, self, node_dict, parent) ==
    IF node_dict.kind # "OrderedDict" THEN [st EXCEPT !.err = "TypeError"]
    ELSE LoadChecked(st, self, node_dict.items, parent, LoadRecord(node_dict.items))

\* the depth of node id below the root
RECURSIVE Depth(_, _)
Depth(h, id) == IF h[id].parent = NoParent THEN 0 ELSE 1 + Depth(h, h[id].parent)

(************* the nested map alone: a tree dumped and loaded **************)
\* What the server may have reported for the directories of the tree: a folder,
\* a file, and a file whose name is the word get_dict writes for the root.
DictItems ==
    { [type |-> TagDirBytes, name |-> <<68>>, size |-> 0, hash |-> 171],
      [type |-> TagFileBytes, name |-> <<97>>, size |-> 10, hash |-> 1],
      [type |-> TagFileBytes, name |-> ROOT, size |-> 0, hash |-> 4096] }

\* lines 641-660: the node built for a listed item
ListedNode(it, parent) ==
    DirectoryNodeExtended(
        IF it.type = TagDirBytes THEN VirtualDirectoryRecord(it.name, it.hash)
        ELSE VirtualFileRecord(it.name, it.hash, it.size),
        murmur2_32(EncodeUtf16le(Lower(it.name))), parent)

InitDict == Init

\* a successful update_filelist of one directory that has no children yet
Grow ==
    /\ pc = "init"
    /\ \E id \in DOMAIN nodes, items \in SeqsUpTo(DictItems, MaxItems) \ {<<>>} :
          /\ nodes[id].children = <<>>
          /\ id = Root \/ IsDirectoryRecord(nodes[id].record)
          /\ Depth(nodes, id) < MaxDepth
          /\ nodes' = AssignChildren(nodes, DOMAIN nodes, id,
                                     [i \in 1..Len(items) |-> ListedNode(items[i], id)])
    /\ UNCHANGED <<data, pos, sockbuf, wire, closed, ncalls, pc, call, consumed, filled,
                   dump, loaded, sessvars>>

\* dump_dict = directory.get_dict(recurse)
GetDictStep ==
    /\ pc = "init"
    /\ \E recurse \in BOOLEAN :
          dump' = [recurse |-> recurse, map |-> get_dict(nodes, Root, recurse)]
    /\ pc' = "dumped"
    /\ call' = [op |-> "get_dict", err |-> "none"]
    /\ UNCHANGED <<nodes, data, pos, sockbuf, wire, closed, ncalls, consumed, filled, loaded, sessvars>>

LoadDictDone(st) ==
    /\ loaded' = st.h
    /\ call' = [op |-> "load_dict", err |-> st.err]
    /\ pc' = "loaded"
    /\ UNCHANGED <<nodes, data, pos, sockbuf, wire, closed, ncalls, consumed, filled, dump, sessvars>>

\* DirectoryNodeExtended(None, None, None).load_dict(dump_dict)
LoadDictStep ==
    /\ pc = "dumped"
    /\ LoadDictDone(load_dict(
           [h |-> [id \in {Root} |-> DirectoryNodeExtended(None, None, NoParent)],
            err |-> "none"],
           Root, dump.map, NoParent))

NextDict == Grow \/ GetDictStep \/ LoadDictStep

SpecDict == InitDict /\ [][NextDict]_vars

(********* the tree under listings and load_dict on arbitrary maps *********)
MaxTreeOps == 2
MaxMapDepth == 1

HexOf(n) == FormatHex(n, HashHexLen)

\* What a caller may pass to load_dict: well-formed entries, an entry of a type
\* that is neither 'file' nor 'folder', and a plain dict
FileMap == OrderedDict([name |-> <<97>>, hash |-> HexOf(1), type |-> "file", size |-> 10])

FolderMap == OrderedDict([name |-> <<68>>, hash |-> HexOf(171), type |-> "folder"])

RootMap == OrderedDict([name |-> ROOT])

LeafMaps ==
    { FileMap, FolderMap, RootMap,
      OrderedDict([name |-> <<88>>, hash |-> HexOf(2), type |-> "link"]),
      [kind |-> "dict", items |-> FolderMap.items] }

RECURSIVE MapsUpTo(_)
MapsUpTo(d) ==
    IF d = 0 THEN LeafMaps
    ELSE MapsUpTo(d - 1) \cup
         { OrderedDict(WithChildren(b.items, kids)) :
               b \in {RootMap, FolderMap, FileMap},
               kids \in SeqsUpTo(MapsUpTo(d - 1), MaxItems) \ {<<>>} }

InputMaps == MapsUpTo(MaxMapDepth)

\* update_filelist(['']) answered completely: the root's children are replaced
ListRoot ==
    /\ pc = "init"
    /\ ncalls < MaxTreeOps
    /\ ncalls' = ncalls + 1
    /\ \E items \in SeqsUpTo(DictItems, MaxItems) :
          nodes' = AssignChildren(nodes, DOMAIN nodes, Root,
                                  [i \in 1..Len(items) |-> ListedNode(items[i], Root)])
    /\ call' = [NoCall EXCEPT !.op = "update_filelist", !.folders = <<<<>>>>]
    /\ UNCHANGED <<data, pos, sockbuf, wire, closed, pc, consumed, filled,
                   dump, loaded, sessvars>>

LoadMapDone(m, self, st) ==
    /\ nodes' = st.h
    /\ call' = [op |-> "load_dict", err |-> st.err, map |-> m, self |-> self]
    /\ ncalls' = ncalls + 1
    /\ UNCHANGED <<data, pos, sockbuf, wire, closed, pc, consumed, filled, dump, loaded, sessvars>>

\* node.load_dict(m) on a node of the tree of the PatchFileList: the root
\* (directory.load_dict(m)) or a node below it (directory[path].load_dict(m))
LoadMapStep ==
    /\ pc = "init"
    /\ ncalls < MaxTreeOps
    /\ \E m \in InputMaps, self \in DOMAIN nodes :
          LoadMapDone(m, self, load_dict([h |-> nodes, err |-> "none"], self, m, NoParent))

NextLoad == ListRoot \/ LoadMapStep

SpecLoad == Init /\ [][NextLoad]_vars

(******** the request of update_filelist for names of any code point *******)
MaxQueries == 1

\* The directories the server may have reported for the root: 'D' and one
\* whose name is the single code point U+10000 (two UTF-16 code units).
QueryNames == {<<68>>, <<65536>>}

QueryItems ==
    { [type |-> TagDirBytes, name |-> n, size |-> 0, hash |-> 2] : n \in QueryNames }

\* the lists a caller may pass: the root and the names above
QueryLists == SeqsUpTo(QueryNames \cup {<<>>}, MaxFolders)

\* PatchFileList.__init__: the root listed successfully with these directories
ListNames ==
    /\ pc = "init"
    /\ pc' = "ready"
    /\ \E items \in SeqsUpTo(QueryItems, MaxItems) :
          nodes' = AssignChildren(nodes, DOMAIN nodes, Root,
                                  [i \in 1..Len(items) |-> ListedNode(items[i], Root)])
    /\ UNCHANGED <<data, pos, sockbuf, wire, closed, ncalls, call, consumed, filled,
                   dump, loaded, sessvars>>

\* update_filelist(folders) by the owner of the PatchFileList
QueryFolders ==
    /\ pc = "ready"
    /\ ncalls < MaxQueries
    /\ ncalls' = ncalls + 1
    /\ \E folders \in QueryLists : update_filelist(folders)

NextQuery == ListNames \/ QueryFolders

SpecQuery == Init /\ [][NextQuery]_vars

(************** Patch.update_patch_urls: the handshake *********************)
\* the variables of the PatchFileList, which the Patch does not touch
listvars == <<nodes, data, pos, sockbuf, wire, closed, ncalls, pc, call, consumed,
              filled, dump, loaded>>

RecvSize == 1024
BlankLen == 33
_PROTO == <<1, 4>>

MaxUrl == 2

\* The code units a URL in the server's reply is made of: 'a', 'x' and U+FEFF.
UrlUnits == {97, 120, 65279}

Urls == SeqsUpTo(UrlUnits, MaxUrl)

\* the server's reply: 1 byte, 33 bytes, then each URL behind its length in
\* code units, a single byte before the second one
HandshakeReply(u1, u2) ==
    <<1>> \o [i \in 1..BlankLen |-> 0] \o <<Len(u1)>> \o UnitsToBytes(u1)
        \o <<0>> \o <<Len(u2)>> \o UnitsToBytes(u2)

\* io.BytesIO.read(n) at position p: the bytes that are there, at most n
BytesRead(b, p, n) == SubSeq(b, p + 1, Min(p + n, Len(b)))

\* bytes.decode('utf-16') of a whole string: an odd number of bytes is
\* truncated data, a UnicodeDecodeError
StrDecodeUtf16(b) == IF Len(b) % 2 = 1 THEN DecodeFailed ELSE DecodeUtf16(b)

Handshook(err, url, cdn) == [err |-> err, patch_url |-> url, patch_cdn_url |-> cdn]

\* lines 203-204: url2_length, then self.patch_cdn_url
HsCdnUrl(url, cdn) ==
    IF cdn = DecodeFailed THEN Handshook("UnicodeDecodeError", url, <<>>)
    ELSE Handshook("none", url, cdn)

\* lines 201-204: one byte, url2_length, patch_cdn_url; p is the position
\* of the stream behind the first URL
HsSecond(b, p, url) ==
    IF Len(b) < p + 2 THEN Handshook("struct.error", url, <<>>)
    ELSE HsCdnUrl(url, StrDecodeUtf16(BytesRead(b, p + 2, b[p + 2] * 2)))

\* line 199: self.patch_url = data.read(url_length*2).decode('utf-16')
HsUrl(b, raw) ==
    IF StrDecodeUtf16(raw) = DecodeFailed THEN Handshook("UnicodeDecodeError", <<>>, <<>>)
    ELSE HsSecond(b, 1 + BlankLen + 1 + Len(raw), StrDecodeUtf16(raw))

\* lines 195-204: the reply b decoded field by field; struct.unpack raises
\* struct.error when read returned fewer bytes than the format needs
HandshakeDecode(b) ==
    IF Len(b) < 1 + BlankLen + 1 THEN Handshook("struct.error", <<>>, <<>>)
    ELSE HsUrl(b, BytesRead(b, 1 + BlankLen + 1, b[1 + BlankLen + 1] * 2))

\* a new descriptor on the connection: the lowest number not open
NewFd(handles) ==
    CHOOSE n \in 0..Len(handles) :
        /\ \A i \in 1..Len(handles) : handles[i].open => handles[i].fd # n
        /\ \A m \in 0..(n - 1) : \E i \in 1..Len(handles) :
                                   handles[i].open /\ handles[i].fd = m

Handle(fd, open) == [fd |-> fd, open |-> open, closes |-> IF open THEN 0 ELSE 1]

\* lines 190-207 after the reply: the socket of the with statement is
\* detached on success (its descriptor stays open, its number is kept in
\* sock_fd) and closed by the with statement on an exception
Connected(u1, u2, received, r) ==
    /\ patch' = [state |-> IF r.err = "none" THEN "connected" ELSE "failed",
                 patch_url |-> r.patch_url, patch_cdn_url |-> r.patch_cdn_url,
                 sock_fd |-> IF r.err = "none" THEN NewFd(os.handles) ELSE NoFd,
                 err |-> r.err, reply |-> HandshakeReply(u1, u2), received |-> received,
                 urls |-> <<u1, u2>>, sent |-> _PROTO, steps |-> <<>>,
                 raised |-> "none", seen |-> "none"]
    /\ os' = [os EXCEPT !.handles = Append(@, Handle(NewFd(os.handles), r.err = "none"))]
    /\ UNCHANGED <<listvars, lists, threads, dl, found, cond>>

\* Patch.__init__ (lines 161-162): update_patch_urls.  The server answers
\* with the URLs u1 and u2; sock.recv(1024) returns the first c bytes of the
\* reply, those that have arrived.
Connect ==
    /\ patch.state = "none"
    /\ \E u1 \in Urls, u2 \in Urls :
          \E c \in 0..Len(HandshakeReply(u1, u2)) :
              Connected(u1, u2, Take(HandshakeReply(u1, u2), Min(c, RecvSize)),
                        HandshakeDecode(Take(HandshakeReply(u1, u2), Min(c, RecvSize))))

NextHandshake == Connect

SpecHandshake == Init /\ [][NextHandshake]_vars

(******* the connection's descriptors: Patch and PatchFileList objects *****)
MaxLists == 2

\* the descriptor number fd is open
IsOpen(handles, fd) == \E i \in 1..Len(handles) : handles[i].open /\ handles[i].fd = fd

\* the open handle that has the number fd
HandleOf(handles, fd) == CHOOSE i \in 1..Len(handles) : handles[i].open /\ handles[i].fd = fd

\* socket_fd_open (lines 79-100): socket.fromfd duplicates the descriptor;
\* the result is a socket on a new descriptor of the same connection
socket_fd_open(handles) == Append(handles, Handle(NewFd(handles), TRUE))

\* sock.close() on the socket whose descriptor is fd
CloseFd(handles, fd) ==
    [handles EXCEPT ![HandleOf(handles, fd)] =
        [@ EXCEPT !.open = FALSE, !.closes = @ + 1]]

\* PatchFileList.__init__ (lines 434-443): the socket is built from
\* patch.sock_fd; whether the listing of the root then succeeded is kept in
\* listed (the listing itself is update_filelist above).  The object exists
\* also when the listing raised, until it is collected.
NewList ==
    /\ patch.state = "connected"
    /\ Len(lists) < MaxLists
    /\ IsOpen(os.handles, patch.sock_fd)
    /\ \E ok \in BOOLEAN :
          lists' = Append(lists, [sock |-> NewFd(os.handles), alive |-> TRUE,
                                  listed |-> ok])
    /\ os' = [os EXCEPT !.handles = socket_fd_open(@)]
    /\ UNCHANGED <<listvars, patch, threads, dl, found, cond>>

\* PatchFileList.__del__ (line 449): the socket is detached and its
\* descriptor's number is written to patch.sock_fd
DelList ==
    \E i \in 1..Len(lists) :
        /\ lists[i].alive
        /\ lists' = [lists EXCEPT ![i].alive = FALSE]
        /\ patch' = [patch EXCEPT !.sock_fd = lists[i].sock]
        /\ UNCHANGED <<listvars, os, threads, dl, found, cond>>

\* lines 169-177 on the duplicate fd: shutdown, then close.  A shutdown that
\* raised OSError has not shut the connection down; a close releases the
\* descriptor also when it reports an error.
ShutdownClose(handles, fd, shut, closed_ok) ==
    os' = [handles |-> CloseFd(handles, fd),
           shutdowns |-> IF shut THEN os.shutdowns + 1 ELSE os.shutdowns]

\* what the code that disposed of the Patch gets of an exception raised in
\* __del__: the exception itself when it called patch.__del__(); nothing when
\* the interpreter ran __del__ on collecting the object, for it reports an
\* exception of a finalizer on stderr and goes on
Delivered(how, raised) == IF how = "called" THEN raised ELSE "none"

\* lines 170-177: the OSError of shutdown is passed over (lines 172-173), the
\* OSError of close is raised again (lines 176-177)
DelRaised(shut, closed_ok) == IF closed_ok THEN "none" ELSE "OSError"

\* lines 170-175: the calls made on the socket, in order, and how each ended
DelSteps(shut, closed_ok) ==
    <<[op |-> "shutdown", ok |-> shut], [op |-> "close", ok |-> closed_ok]>>

\* Patch.__del__ (lines 164-177), run when nothing refers to the Patch any
\* more, so after every PatchFileList built on it, or called by hand: a
\* socket is built from sock_fd, shut down and closed; either call may raise
\* OSError
Teardown ==
    /\ patch.state = "connected"
    /\ \A i \in 1..Len(lists) : ~lists[i].alive
    /\ IsOpen(os.handles, patch.sock_fd)
    /\ \E shut \in BOOLEAN, closed_ok \in BOOLEAN, how \in {"collected", "called"} :
          /\ patch' = [patch EXCEPT !.state = "torn",
                                    !.steps = DelSteps(shut, closed_ok),
                                    !.raised = DelRaised(shut, closed_ok),
                                    !.seen = Delivered(how, DelRaised(shut, closed_ok))]
          /\ ShutdownClose(socket_fd_open(os.handles), NewFd(os.handles), shut, closed_ok)
    /\ UNCHANGED <<listvars, lists, threads, dl, found, cond>>

NextSession == Connect \/ NewList \/ DelList \/ Teardown

SpecSession == Init /\ [][NextSession]_vars

(********* update_filelist called from two threads on one client ***********)
\* A thread can be switched at every blocking socket call, where the
\* interpreter releases its lock: behind sock.send (line 597) and behind
\* sock.recv (line 599).  Each call is therefore three steps: the checks and
\* the send, the first receive, the decoding.
MaxThreads == 2

\* what the threads ask for: the root, or the directory 'D'
ThreadLists == {<<<<>>>>, <<<<68>>>>}

\* lines 566-597: the checks, then sock.send; the server answers the request
\* with one well-formed segment
ThreadSent(folders, frames, chk) ==
    /\ threads' = Append(threads,
          [pc |-> IF chk.err = "none" THEN "sent" ELSE "done",
           folders |-> folders, frames |-> frames, err |-> chk.err,
           resp |-> IF chk.err = "none"
                    THEN Flatten(ResponseSegments(folders, frames, "ok", 1)) ELSE <<>>,
           got |-> <<>>])
    /\ wire' = IF chk.err = "none"
               THEN wire \o ResponseSegments(folders, frames, "ok", 1) ELSE wire
    /\ UNCHANGED <<nodes, data, pos, sockbuf, closed, ncalls, pc, call, consumed, filled,
                   dump, loaded, patch, os, lists, dl, found, cond>>

ThreadSend ==
    /\ pc = "ready"
    /\ Len(threads) < MaxThreads
    /\ \E folders \in ThreadLists, frames \in [1..1 -> Listings] :
          ThreadSent(folders, frames, CheckFolders(nodes, folders))

\* lines 598-602: sock.recv(2048) becomes self.data, the attribute that
\* every call on this client reads from
ThreadReceived(t, st) ==
    /\ IoVars(st.io)
    /\ threads' = [threads EXCEPT ![t].pc = IF st.io.err = "none" THEN "received" ELSE "done",
                                  ![t].err = st.io.err]
    /\ UNCHANGED <<nodes, ncalls, pc, call, filled, dump, loaded, patch, os, lists, dl, found, cond>>

ThreadRecv ==
    \E t \in 1..Len(threads) :
        /\ threads[t].pc = "sent"
        /\ ThreadReceived(t, FirstRecv(SockRecv(IO, bufsize, FALSE, TRUE), nodes))

\* lines 604-662: the sub-frames are decoded from self.data as it is now
ThreadDecoded(t, st) ==
    /\ IoVars(st.io)
    /\ nodes' = st.h
    /\ threads' = [threads EXCEPT ![t].pc = "done", ![t].err = st.io.err,
                                  ![t].got = st.io.consumed]
    /\ UNCHANGED <<ncalls, pc, call, filled, dump, loaded, patch, os, lists, dl, found, cond>>

ThreadDecode ==
    \E t \in 1..Len(threads) :
        /\ threads[t].pc = "received"
        /\ ThreadDecoded(t, FolderNext([io |-> IO, h |-> nodes, used |-> DOMAIN nodes,
                                        targets |-> <<>>],
                                       threads[t].folders, 0, TRUE))

NextThreads == Construct \/ ThreadSend \/ ThreadRecv \/ ThreadDecode

SpecThreads == Init /\ [][NextThreads]_vars

(************************ Patch.download_raw *******************************)
HttpOk == 200

\* What request.urlopen does for one host: a response with status 200 and a
\* body; a response with another status that urlopen hands back (204); an
\* HTTPError for a status urllib raises on (404); a URLError whose reason is
\* a ConnectionRefusedError; a URLError with another reason.
Outcomes ==
    { [kind |-> "response", code |-> HttpOk, body |-> <<7>>],
      [kind |-> "response", code |-> HttpOk, body |-> <<8, 9>>],
      [kind |-> "response", code |-> 204, body |-> <<>>],
      [kind |-> "HTTPError", code |-> 404, body |-> <<>>],
      [kind |-> "refused", code |-> 0, body |-> <<>>],
      [kind |-> "URLError", code |-> 0, body |-> <<>>] }

\* the relative paths asked for: 'a' and 'D/a'
FilePaths == {<<97>>, <<68, Slash, 97>>}

Returned(body) == [kind |-> "return", value |-> body, error |-> "none"]

\* the end of the function body reached: the call returns None
ReturnedNone == [kind |-> "returnNone", value |-> <<>>, error |-> "none"]

Raised(error) == [kind |-> "raise", value |-> <<>>, error |-> error]

\* the handler of lines 288-292 raises again on every URLError at all
NextHostNever(o, index, nhosts) == FALSE

\* lines 288-292: the handler lets the loop go on to the next host when the
\* reason is a ConnectionRefusedError and index < len(hosts)
NextHost(o, index, nhosts) == o.kind = "refused" /\ index < nhosts

\* lines 282-292 for one host: the result, or "next" when the loop goes on.
\* An HTTPError is a URLError whose reason is not a ConnectionRefusedError.
Attempt(o, index, nhosts) ==
    IF o.kind = "response"
    THEN IF o.code # HttpOk THEN Raised("ValueError") ELSE Returned(o.body)
    ELSE IF NextHost(o, index, nhosts) THEN [kind |-> "next", value |-> <<>>, error |-> "none"]
    ELSE Raised(IF o.kind = "refused" THEN "URLError" ELSE o.kind)

\* lines 280-292: for index, host in enumerate(hosts); contacted collects
\* the URLs opened
RECURSIVE TryHosts(_, _, _, _, _)
HostTried(hosts, outcomes, file_path, index, contacted, r) ==
    IF r.kind = "next" THEN TryHosts(hosts, outcomes, file_path, index + 1, contacted)
    ELSE [contacted |-> contacted, result |-> r]

TryHosts(hosts, outcomes, file_path, index, contacted) ==
    IF index >= Len(hosts) THEN [contacted |-> contacted, result |-> ReturnedNone]
    ELSE HostTried(hosts, outcomes, file_path, index,
                   Append(contacted, hosts[index + 1] \o file_path),
                   Attempt(outcomes[index + 1], index, Len(hosts)))

\* download_raw(file_path): hosts = [self.patch_cdn_url, self.patch_url]
download_raw(file_path, outcomes) ==
    TryHosts(<<patch.patch_cdn_url, patch.patch_url>>, outcomes, file_path, 0, <<>>)

Downloaded(file_path, outcomes, r) ==
    /\ dl' = [op |-> "download_raw", file_path |-> file_path, outcomes |-> outcomes,
              contacted |-> r.contacted, result |-> r.result]
    /\ UNCHANGED <<listvars, patch, os, lists, threads, found, cond>>

\* patch.download_raw(file_path) on a Patch whose handshake succeeded;
\* outcomes[1] is what the CDN host answers, outcomes[2] the primary host
Download ==
    /\ patch.state = "connected"
    /\ \E file_path \in FilePaths, outcomes \in [1..2 -> Outcomes] :
          Downloaded(file_path, outcomes, download_raw(file_path, outcomes))

NextDownload == Connect \/ Download

SpecDownload == Init /\ [][NextDownload]_vars

(**************************** Patch.download *******************************)
MaxDownloads == 1

\* an argument left at its default None
NoneStr == <<-1>>

\* the destinations a caller may pass: none, '' and 'o' as directory; none,
\* 'f' and 'o/f' as file
DstDirs == {NoneStr, <<>>, <<111>>}

DstFiles == {NoneStr, <<102>>, <<111, Slash, 102>>}

\* the truth value of a str-or-None argument
Truthy(x) == x # NoneStr /\ x # <<>>

\* os.path.join(a, b) for a relative b
PathJoin(a, b) == IF a[Len(a)] = Slash THEN a \o b ELSE a \o <<Slash>> \o b

\* os.path.split(p)[0]: what stands before the last slash
DirName(p) ==
    IF \A i \in 1..Len(p) : p[i] # Slash THEN <<>>
    ELSE Take(p, (CHOOSE i \in 1..Len(p) :
                    p[i] = Slash /\ \A j \in (i + 1)..Len(p) : p[j] # Slash) - 1)

\* lines 246-251 without the else branch: the file goes to file_path
WritePathDefault(file_path, dst_dir, dst_file) ==
    IF Truthy(dst_dir) THEN PathJoin(dst_dir, file_path)
    ELSE IF Truthy(dst_file) THEN dst_file
    ELSE file_path

\* lines 246-251: write_path, or NoneStr when ValueError is raised
WritePath(file_path, dst_dir, dst_file) ==
    IF Truthy(dst_dir) THEN PathJoin(dst_dir, file_path)
    ELSE IF Truthy(dst_file) THEN dst_file
    ELSE NoneStr

\* lines 257-258: open(write_path, 'wb') creates the file, then download_raw
\* runs, then its result is written; writing None is a TypeError
Written(write_path, made, r) ==
    [made |-> made, created |-> <<write_path>>, contacted |-> r.contacted,
     result |-> IF r.result.kind = "returnNone" THEN Raised("TypeError")
                ELSE IF r.result.kind = "raise" THEN r.result
                ELSE ReturnedNone,
     content |-> IF r.result.kind = "return" THEN r.result.value ELSE <<>>]

\* line 254: os.makedirs(os.path.split(write_path)[0], exist_ok=True); the
\* empty directory name is a FileNotFoundError
MadeDirs(write_path, file_path, outcomes) ==
    IF DirName(write_path) = <<>>
    THEN [made |-> <<>>, created |-> <<>>, contacted |-> <<>>,
          result |-> Raised("FileNotFoundError"), content |-> <<>>]
    ELSE Written(write_path, <<DirName(write_path)>>, download_raw(file_path, outcomes))

\* Patch.download(file_path, dst_dir, dst_file), lines 246-258
DownloadTo(write_path, file_path, outcomes) ==
    IF write_path = NoneStr
    THEN [made |-> <<>>, created |-> <<>>, contacted |-> <<>>,
          result |-> Raised("ValueError"), content |-> <<>>]
    ELSE MadeDirs(write_path, file_path, outcomes)

download(file_path, dst_dir, dst_file, outcomes) ==
    DownloadTo(WritePath(file_path, dst_dir, dst_file), file_path, outcomes)

DownloadedTo(file_path, dst_dir, dst_file, outcomes, r) ==
    /\ dl' = [op |-> "download", file_path |-> file_path, dst_dir |-> dst_dir,
              dst_file |-> dst_file, outcomes |-> outcomes, made |-> r.made,
              created |-> r.created, contacted |-> r.contacted, result |-> r.result,
              content |-> r.content]
    /\ ncalls' = ncalls + 1
    /\ UNCHANGED <<nodes, data, pos, sockbuf, wire, closed, pc, call, consumed, filled,
                   dump, loaded, patch, os, lists, threads, found, cond>>

\* patch.download(...) on a Patch whose handshake succeeded
DownloadFile ==
    /\ patch.state = "connected"
    /\ ncalls < MaxDownloads
    /\ \E file_path \in FilePaths, dst_dir \in DstDirs, dst_file \in DstFiles,
          outcomes \in [1..2 -> Outcomes] :
          DownloadedTo(file_path, dst_dir, dst_file, outcomes,
                       download(file_path, dst_dir, dst_file, outcomes))

NextFetch == Connect \/ DownloadFile

SpecFetch == Init /\ [][NextFetch]_vars

(************ the content hash: 32 bytes, an int, 64 hex digits ************)
\* A Python int of any size is kept as its hexadecimal digits, most
\* significant first, without leading zeros; 0 is the empty sequence.
StripZeros(d) ==
    IF \A i \in 1..Len(d) : d[i] = 0 THEN <<>>
    ELSE SubSeq(d, CHOOSE i \in 1..Len(d) : d[i] # 0 /\ \A j \in 1..(i - 1) : d[j] = 0,
                Len(d))

\* line 645: int.from_bytes(sha256sum, byteorder='big'), unsigned
int_from_bytes(b) ==
    StripZeros([i \in 1..(2 * Len(b)) |->
                   IF i % 2 = 1 THEN b[(i + 1) \div 2] \div 16 ELSE b[i \div 2] % 16])

\* format(n, 'x'): the digits without zero fill
FormatBigBare(n, w) == IF n = <<>> THEN <<48>> ELSE [i \in 1..Len(n) |-> HexDigit(n[i])]

\* line 749: format(n, '064x'): lower-case digits, filled with zeros on the
\* left up to the width w, which is a minimum
FormatBig(n, w) ==
    IF Len(n) >= w THEN [i \in 1..Len(n) |-> HexDigit(n[i])]
    ELSE [i \in 1..w |-> IF i <= w - Len(n) THEN 48 ELSE HexDigit(n[i - (w - Len(n))])]

\* line 804: int(pretty_hash, 16) on a string of hexadecimal digits
IntOfHex(str) == StripZeros([i \in 1..Len(str) |-> HexValue(str[i])])

\* The hashes a server may send: all bytes 0, all bytes 255, one byte set
\* at any of the 32 positions, and a mixed one.
HashInputs ==
    { [i \in 1..HashLen |-> 0], [i \in 1..HashLen |-> 255],
      [i \in 1..HashLen |-> (i * 37) % 256] }
    \cup { [i \in 1..HashLen |-> IF i = p THEN v ELSE 0] :
               p \in 1..HashLen, v \in {1, 128, 171, 255} }

HashWritten(b, n, hex) ==
    /\ call' = [op |-> "hash", bytes |-> b, int |-> n, hex |-> hex, back |-> IntOfHex(hex)]
    /\ UNCHANGED <<nodes, data, pos, sockbuf, wire, closed, ncalls, pc, consumed, filled,
                   dump, loaded, sessvars>>

HashRead(b, n) == HashWritten(b, n, FormatBig(n, HashHexLen))

\* an item's 32 hash bytes are read by update_filelist, written by get_dict
\* and read back by load_dict
HashTrip == \E b \in HashInputs : HashRead(b, int_from_bytes(b))

NextHash == HashTrip

SpecHash == Init /\ [][NextHash]_vars

(******************* DirectoryNodeExtended.gen_walk ************************)
MaxWalk == 3

Unbounded == -1

\* lines 867-875: the pairs (node, depth) that self.gen_walk(max_depth,
\* _depth) yields, in order
RECURSIVE gen_walk(_, _, _, _)
RECURSIVE WalkChildren(_, _, _, _, _)
\* lines 874-875: for child in self.children: yield from child.gen_walk(...)
WalkChildren(h, children, i, max_depth, _depth) ==
    IF i > Len(children) THEN <<>>
    ELSE gen_walk(h, children[i], max_depth, _depth)
         \o WalkChildren(h, children, i + 1, max_depth, _depth)

\* line 872 with < in place of <=: the level max_depth is not entered
DescendsStrict(max_depth, _depth) == max_depth = Unbounded \/ _depth < max_depth

\* lines 868 and 872: if (max_depth == -1 or _depth <= max_depth)
Descends(max_depth, _depth) == max_depth = Unbounded \/ _depth <= max_depth

\* the children's pairs ahead of the node's own
YieldAfter(own, below) == below \o own

\* lines 869-875: yield (self, _depth) comes before the loop over the children
YieldFirst(own, below) == own \o below

gen_walk(h, self, max_depth, _depth) ==
    IF Descends(max_depth, _depth)
    THEN YieldFirst(<<[node |-> self, depth |-> _depth]>>,
                    IF Descends(max_depth, _depth + 1)
                    THEN WalkChildren(h, h[self].children, 1, max_depth, _depth + 1)
                    ELSE <<>>)
    ELSE <<>>

\* list(node.gen_walk(max_depth)) for a node of the tree
WalkStep ==
    /\ pc = "init"
    /\ \E id \in DOMAIN nodes, max_depth \in {Unbounded} \cup 0..MaxWalk :
          call' = [op |-> "gen_walk", start |-> id, max_depth |-> max_depth,
                   pairs |-> gen_walk(nodes, id, max_depth, 0)]
    /\ pc' = "walked"
    /\ UNCHANGED <<nodes, data, pos, sockbuf, wire, closed, ncalls, consumed, filled,
                   dump, loaded, sessvars>>

NextWalk == Grow \/ WalkStep

SpecWalk == Init /\ [][NextWalk]_vars

(********************** find_template (wiki/parser.py) *********************)
MaxLexemes == 6

\* characters of a wikitext: '{' '}' '|' '=' and the letters 'T' and 'x'
LBraceCh == 123
RBraceCh == 125
PipeCh == 124
EqualsCh == 61

\* the template looked for: 'T'
template_name == <<84>>

\* the pieces the wikitexts are put together from: '{{', '}}', '|', '=',
\* 'T' and 'x'
Lexemes ==
    { <<LBraceCh, LBraceCh>>, <<RBraceCh, RBraceCh>>, <<PipeCh>>, <<EqualsCh>>,
      <<84>>, <<120>> }

WikiTexts == {Flatten(ls) : ls \in SeqsUpTo(Lexemes, MaxLexemes)}

\* \w for the characters at hand: letters, digits and the underscore
IsWordCh(c) == c \in (48..57) \cup (65..90) \cup (97..122) \cup {95}

\* s has t at position i
HasAt(s, i, t) == i + Len(t) - 1 <= Len(s) /\ SubSeq(s, i, i + Len(t) - 1) = t

\* the lookahead (?=[^\w}\|]*\||}}) at position i: characters that are no
\* word character, no '}' and no '|', then a '|'; or '}}' at once
LookAhead(s, i) ==
    \/ HasAt(s, i, <<RBraceCh, RBraceCh>>)
    \/ \E j \in i..Len(s) :
          /\ s[j] = PipeCh
          /\ \A k \in i..(j - 1) : ~IsWordCh(s[k]) /\ s[k] # RBraceCh /\ s[k] # PipeCh

IsTextCh(c) == c \notin {LBraceCh, RBraceCh, PipeCh, EqualsCh}

\* the end of the longest run [^{}\|=]+ that starts at i
TextEnd(s, i) ==
    CHOOSE j \in i..Len(s) :
        /\ \A k \in i..j : IsTextCh(s[k])
        /\ j = Len(s) \/ ~IsTextCh(s[j + 1])

Token(tid, text) == [tid |-> tid, text |-> text]

\* the first pattern of the scanner's list that matches at position i
ScanAt(s, i) ==
    IF HasAt(s, i, <<LBraceCh, LBraceCh>> \o template_name)
       /\ LookAhead(s, i + 2 + Len(template_name))
    THEN Token("template", <<LBraceCh, LBraceCh>> \o template_name)
    ELSE IF HasAt(s, i, <<LBraceCh, LBraceCh>>) THEN Token("l_brace", <<LBraceCh, LBraceCh>>)
    ELSE IF HasAt(s, i, <<RBraceCh, RBraceCh>>) THEN Token("r_brace", <<RBraceCh, RBraceCh>>)
    ELSE IF s[i] = PipeCh THEN Token("pipe", <<PipeCh>>)
    ELSE IF s[i] = EqualsCh THEN Token("equals", <<EqualsCh>>)
    ELSE IF s[i] \in {LBraceCh, RBraceCh} THEN Token("single_brace", <<s[i]>>)
    ELSE Token("text", SubSeq(s, i, TextEnd(s, i)))

\* scanner.scan(wikitext)[0]: the tokens from position i on
RECURSIVE Scan(_, _)
ScanNext(s, i, t) == <<t>> \o Scan(s, i + Len(t.text))

Scan(s, i) == IF i > Len(s) THEN <<>> ELSE ScanNext(s, i, ScanAt(s, i))

\* str.strip(' \n')
RECURSIVE Strip(_)
Strip(t) ==
    IF t = <<>> THEN t
    ELSE IF t[1] \in {32, 10} THEN Strip(Tail(t))
    ELSE IF t[Len(t)] \in {32, 10} THEN Strip(SubSeq(t, 1, Len(t) - 1))
    ELSE t

\* the loop variables before the first token; low is the lowest value
\* brace_count has had
Scanning ==
    [texts |-> <<<<>>>>, kw_arguments |-> <<>>, arguments |-> <<>>,
     in_template |-> FALSE, pre_equal |-> TRUE, brace_count |-> 0,
     template_argument |-> <<<<>>, <<>>>>, low |-> 0]

\* kw_arguments[key] = value on an OrderedDict kept as a sequence of pairs
SetItem(d, key, value) ==
    IF \E i \in 1..Len(d) : d[i][1] = key
    THEN [i \in 1..Len(d) |-> IF d[i][1] = key THEN <<key, value>> ELSE d[i]]
    ELSE Append(d, <<key, value>>)

\* lines 1127-1132: a pipe or '}}' at brace_count 0 ends the argument
ArgumentEnd(st) ==
    [st EXCEPT !.pre_equal = TRUE,
               !.kw_arguments = IF st.template_argument[2] # <<>>
                                THEN SetItem(@, st.template_argument[1],
                                             st.template_argument[2])
                                ELSE @,
               !.arguments = IF st.template_argument[2] = <<>>
                                /\ st.template_argument[1] # <<>>
                             THEN Append(@, <<st.template_argument[1]>>)
                             ELSE @,
               !.template_argument = <<<<>>, <<>>>>]

\* lines 1126-1138: what a token inside the template does to the argument
ArgumentStep(st, t) ==
    IF t.tid \in {"pipe", "r_brace"} /\ st.brace_count = 0 THEN ArgumentEnd(st)
    ELSE IF t.tid \in {"text", "l_brace", "r_brace", "single_brace", "pipe"}
    THEN [st EXCEPT !.template_argument[IF st.pre_equal THEN 1 ELSE 2] = @ \o Strip(t.text)]
    ELSE IF t.tid = "equals" THEN [st EXCEPT !.pre_equal = FALSE]
    ELSE st

\* lines 1121-1122: if tid == 'template': in_template = True
OpensTemplate(st) == [st EXCEPT !.in_template = TRUE]

\* lines 1140-1149: the brace counting; brace_count is the count before the
\* token, taken before the argument was handled
BraceStep(st, t, brace_count) ==
    IF t.tid = "l_brace" THEN [st EXCEPT !.brace_count = brace_count + 1]
    ELSE IF t.tid = "r_brace"
    THEN IF brace_count = 0
         THEN [st EXCEPT !.in_template = FALSE, !.texts = Append(@, <<>>)]
         ELSE [st EXCEPT !.brace_count = brace_count - 1,
                         !.low = Min(@, brace_count - 1)]
    ELSE st

\* lines 1120-1151: one token
TokenStep(st, t) ==
    IF t.tid = "template" THEN OpensTemplate(st)
    ELSE IF st.in_template THEN BraceStep(ArgumentStep(st, t), t, st.brace_count)
    ELSE [st EXCEPT !.texts[Len(st.texts)] = @ \o t.text]

\* lines 1120-1151: for tid, match, text in scanner.scan(wikitext)[0]
RECURSIVE TokenLoop(_, _, _)
TokenLoop(st, tokens, i) ==
    IF i > Len(tokens) THEN st ELSE TokenLoop(TokenStep(st, tokens[i]), tokens, i + 1)

\* find_template(wikitext, template_name): texts, args and kwargs, and the
\* lowest brace count
find_template(wikitext) == TokenLoop(Scanning, Scan(wikitext, 1), 1)

Found(wikitext, st) ==
    /\ found' = [op |-> "find_template", wikitext |-> wikitext,
                 tokens |-> Scan(wikitext, 1), texts |-> st.texts,
                 args |-> st.arguments, kwargs |-> st.kw_arguments, low |-> st.low]
    /\ UNCHANGED <<listvars, patch, os, lists, threads, dl, cond>>

InitTemplate ==
    /\ nodes = [id \in {Root} |-> DirectoryNodeExtended(None, None, NoParent)]
    /\ data = <<>> /\ pos = 0 /\ sockbuf = <<>> /\ wire = <<>> /\ closed = FALSE
    /\ ncalls = 0 /\ pc = "init" /\ call = NoCall /\ consumed = <<>> /\ filled = <<>>
    /\ dump = None /\ loaded = None
    /\ patch = NoPatch /\ os = [handles |-> <<>>, shutdowns |-> 0]
    /\ lists = <<>> /\ threads = <<>> /\ dl = [op |-> "none"]
    /\ cond = [op |-> "none"]
    /\ \E wikitext \in WikiTexts : found = [op |-> "none", wikitext |-> wikitext]

\* find_template(wikitext, 'T')
FindTemplate ==
    /\ found.op = "none"
    /\ Found(found.wikitext, find_template(found.wikitext))

NextTemplate == FindTemplate

SpecTemplate == InitTemplate /\ [][NextTemplate]_vars

(********************** WikiCondition (wiki/parser.py) *********************)
MaxPageCalls == 4

\* 'base_page'
BasePage == <<98, 97, 115, 101, 95, 112, 97, 103, 101>>

\* line 935: COPY_KEYS = ('base_page',)
COPY_KEYS == <<BasePage>>

\* line 941: ADD_INCLUDE = False
ADD_INCLUDE == FALSE

\* '<onlyinclude></onlyinclude>'
OnlyInclude ==
    <<60, 111, 110, 108, 121, 105, 110, 99, 108, 117, 100, 101, 62,
      60, 47, 111, 110, 108, 121, 105, 110, 99, 108, 117, 100, 101, 62>>

\* the texts of the pages: 'x'; 'x{{T}}'; '{{T|base_page=x}}T'; '{{T|x}}x{{T}}'
Pages ==
    { <<120>>,
      <<120, LBraceCh, LBraceCh, 84, RBraceCh, RBraceCh>>,
      <<LBraceCh, LBraceCh, 84, PipeCh>> \o BasePage
          \o <<EqualsCh, 120, RBraceCh, RBraceCh, 84>>,
      <<LBraceCh, LBraceCh, 84, PipeCh, 120, RBraceCh, RBraceCh, 120,
        LBraceCh, LBraceCh, 84, RBraceCh, RBraceCh>> }

\* lines 943-946: __init__; data is the OrderedDict of the rows to write,
\* here empty; parsed is the page template_arguments was computed from
NewCondition ==
    [op |-> "WikiCondition", template_arguments |-> None, parsed |-> NoneStr,
     data |-> <<>>, log |-> <<>>]

\* d[key] of a dict kept as a sequence of pairs, or NoneStr for a KeyError
GetKey(d, key) ==
    IF \E i \in 1..Len(d) : d[i][1] = key
    THEN d[CHOOSE i \in 1..Len(d) : d[i][1] = key][2]
    ELSE NoneStr

\* lines 961-965: for k in COPY_KEYS; a missing key is passed over
RECURSIVE CopyKeys(_, _, _)
CopyKeys(d, kwargs, i) ==
    IF i > Len(COPY_KEYS) THEN d
    ELSE CopyKeys(IF GetKey(kwargs, COPY_KEYS[i]) = NoneStr THEN d
                  ELSE SetItem(d, COPY_KEYS[i], GetKey(kwargs, COPY_KEYS[i])),
                  kwargs, i + 1)

Contains(s, t) == \E i \in 1..Len(s) : HasAt(s, i, t)

\* lines 967-970
Prefix(text) == IF ADD_INCLUDE /\ ~Contains(text, OnlyInclude) THEN OnlyInclude ELSE <<>>

\* lines 976-982: _get_text(), the rows formatted from self.data; the
\* formatting itself is left open
GetText(d) == [rows |-> d]

\* what a call returned: a truth value, or a text in parts: what stands in
\* front of the rows, the rows, what follows; of is the page whose parse the
\* parts were taken from
Truth(b) == [kind |-> "bool", value |-> b]

PageText(before, rows, after, of) ==
    [kind |-> "text", before |-> before, rows |-> rows, after |-> after, of |-> of]

Logged(c, page, ret) == [c EXCEPT !.log = Append(@, [page |-> page, ret |-> ret])]

\* lines 953-959: no parse is kept: the page is parsed; without an
\* invocation nothing is kept and the call returns False
ConditionCall(c, page, t) ==
    IF Len(t.texts) = 1 THEN Logged(c, page, Truth(FALSE))
    ELSE Logged([c EXCEPT !.template_arguments = [texts |-> t.texts, kwargs |-> t.kw_arguments],
                          !.parsed = page],
                page, Truth(TRUE))

\* lines 961-974: a parse is kept: keys are copied from it and the text is
\* put together from it; it stays in self.template_arguments
TextCall(c, page, d) ==
    Logged([c EXCEPT !.data = d], page,
           PageText(Prefix(page) \o c.template_arguments.texts[1], GetText(d),
                    Flatten(Tail(c.template_arguments.texts)), c.parsed))

\* WikiCondition.__call__(page=page), lines 948-976; NoneStr is no page
WikiCall(c, page) ==
    IF page = NoneStr THEN Logged(c, page, PageText(<<>>, GetText(c.data), <<>>, NoneStr))
    ELSE IF c.template_arguments = None THEN ConditionCall(c, page, find_template(page))
    ELSE TextCall(c, page, CopyKeys(c.data, c.template_arguments.kwargs, 1))

\* condition = WikiCondition(data, cmdargs)
NewWikiCondition ==
    /\ cond.op = "none"
    /\ cond' = NewCondition
    /\ UNCHANGED <<listvars, patch, os, lists, threads, dl, found>>

\* condition(page=page) or condition()
CallCondition ==
    /\ cond.op = "WikiCondition"
    /\ Len(cond.log) < MaxPageCalls
    /\ \E page \in Pages \cup {NoneStr} : cond' = WikiCall(cond, page)
    /\ UNCHANGED <<listvars, patch, os, lists, threads, dl, found>>

NextCondition == NewWikiCondition \/ CallCondition

SpecCondition == Init /\ [][NextCondition]_vars

(******************************* claims ************************************)

\* C7: read(n) returns exactly n bytes or fails; the bytes returned by the
\* successful reads of one listing are consecutive, gap-free, non-overlapping
\* pieces of the stream received from the socket, and each success moves
\* the cursor by exactly n, also after a top-up from the socket.
C7_ReadExact ==
    /\ data = Numbered(Len(data))
    /\ pc = "ready" => consumed = SubSeq(data, 1, pos)
    /\ (call.op = "read" /\ call.err = "none") =>
          /\ Len(call.ret) = call.n
          /\ pos = call.pos0 + call.n
          /\ call.ret = SubSeq(data, call.pos0 + 1, call.pos0 + call.n)
    /\ (call.op = "read" /\ call.err # "none") => call.ret = <<>>

\* C7 witness: a read of 3 or more bytes that found the buffer short,
\* topped it up from the socket and returned
C7_Witness ==
    /\ call.op = "read" /\ call.err = "none"
    /\ call.n >= 3 /\ call.short /\ call.recvs = 1 /\ call.pos0 > 0

\* C8: when the buffer cannot satisfy read(n) and nothing is pending on the
\* connection or arrives, the call fails with EOFError without waiting.
C8_NoWaitEOF ==
    (call.op = "read" /\ call.starved) => (call.err = "EOFError" /\ ~call.blocked)

\* C9: a read makes at most 2 attempts on the buffer, and a buffer still
\* short after the second attempt makes the call fail with EOFError.
C9_TwoAttempts ==
    call.op = "read" =>
        /\ call.attempts <= 2
        /\ (call.attempts = 2 /\ call.err # "none") => call.err = "EOFError"

(******************** claims about update_filelist *************************)
\* the str a UTF-16LE reader without byte-order-mark handling gets
DecodeUtf16le(b) == DecodeUnits(BytesToUnits(b, FALSE))

\* the name an item carries on the wire, read as UTF-16LE
WireName(it) == DecodeUtf16le(UnitsToBytes(it.name))

\* the record of an item under the name given
RecordOf(it, name) ==
    IF it.type = TagDirBytes THEN VirtualDirectoryRecord(name, it.hash)
    ELSE VirtualFileRecord(name, it.hash, it.size)

\* node c of heap h is the item it, named name, under parent
ChildIs(h, c, it, name, parent) ==
    /\ c \in DOMAIN h
    /\ h[c].record = RecordOf(it, name)
    /\ h[c].hash = murmur2_32(EncodeUtf16le(Lower(name)))
    /\ h[c].parent = parent

\* the children of node id are the items, one by one and in order, each
\* under the name the client's decoding gives it
HoldsListing(h, id, items) ==
    /\ Len(h[id].children) = Len(items)
    /\ \A j \in 1..Len(items) :
          ChildIs(h, h[id].children[j], items[j],
                  DecodeUtf16(UnitsToBytes(items[j].name)), id)

\* the same with the names as they are on the wire, and every child a leaf
HoldsItems(h, id, items) ==
    /\ Len(h[id].children) = Len(items)
    /\ \A j \in 1..Len(items) :
          /\ ChildIs(h, h[id].children[j], items[j], WireName(items[j]), id)
          /\ h[h[id].children[j]].children = <<>>

Succeeded == call.op = "update_filelist" /\ call.err = "none"

\* C1: a listFolders call on folders without duplicates and without the root
\* mixed in either succeeds and leaves the children of every folder named
\* matching what the server reported for it in this call, or fails.
C1_NamedFoldersMatch ==
    Succeeded =>
        \A i \in 1..Len(call.folders) :
            /\ GetItem(nodes, call.folders[i]) # NotFound
            /\ HoldsListing(nodes, GetItem(nodes, call.folders[i]), call.frames[i])

\* C2: after a successful listFolders the children of each folder named are
\* exactly the items of its sub-frame, in the server's order, each a new leaf
\* node under the folder carrying the item's name, size and hash.
C2_ChildrenAreItems ==
    Succeeded =>
        \A i \in 1..Len(call.folders) :
            /\ GetItem(nodes, call.folders[i]) # NotFound
            /\ HoldsItems(nodes, GetItem(nodes, call.folders[i]), call.frames[i])

\* C4: listFolders fails with ValueError whenever one of the paths, not the
\* root, resolves to a File node or does not resolve at all.
C4_NotDirectoryRejected ==
    (call.op = "update_filelist" /\ (call.flaws.file \/ call.flaws.unknown))
        => call.err = "ValueError"

\* C4 witness: a call rejected only because a path resolves to a File node
C4_Witness ==
    /\ call.op = "update_filelist" /\ call.err = "ValueError"
    /\ call.flaws = [NoFlaws EXCEPT !.file = TRUE]

\* C5: a listFolders call that fails with ValueError has sent nothing and
\* received nothing, and has left the tree and the read buffer as they were.
C5_RejectedBeforeIO ==
    [][(ncalls' # ncalls /\ call'.err = "ValueError") =>
          /\ call'.sent = <<>>
          /\ UNCHANGED <<nodes, data, pos, sockbuf, wire, closed, consumed>>]_vars

\* C5 witness: a call rejected for a path never listed, on a client whose
\* buffer holds the previous response
C5_Witness ==
    /\ call.op = "update_filelist" /\ call.err = "ValueError"
    /\ call.flaws = [NoFlaws EXCEPT !.unknown = TRUE]
    /\ pc = "ready" /\ data # <<>>

\* C6: listFolders fails with ValueError when a path occurs twice and when
\* the root is passed together with another path, wherever it stands.
C6_DuplicatesAndRootRejected ==
    (call.op = "update_filelist" /\ (call.flaws.dup \/ call.flaws.rootMixed))
        => call.err = "ValueError"

\* C6 witness: a call rejected only because the same known directory is named twice
C6_Witness ==
    /\ call.op = "update_filelist" /\ call.err = "ValueError"
    /\ call.flaws = [NoFlaws EXCEPT !.dup = TRUE]

\* C10: in every state each node's children are empty or hold, item by item,
\* one whole response sub-frame received for that node; a call that failed
\* among a folder's items leaves no folder with part of a sub-frame.
C10_ChildrenWholeOrEmpty ==
    \A id \in DOMAIN nodes :
        \/ nodes[id].children = <<>>
        \/ id \in DOMAIN filled /\ HoldsListing(nodes, id, filled[id])

\* C10 witness: a relisting of the root failed after the first of two items
\* was decoded, and the root still has its children
C10_Witness ==
    /\ call.op = "update_filelist" /\ call.err \notin {"none", "ValueError"}
    /\ call.folders = <<<<>>>> /\ call.targets = <<>>
    /\ Len(call.frames[1]) = 2
    /\ Len(consumed) >= Len(FrameBytes(<<>>, SubSeq(call.frames[1], 1, 1), "none"))
    /\ nodes[Root].children # <<>>

\* the call just made got a response whose sub-frame k is the first damaged
\* one, the decoder came as far as that sub-frame, and (for a damaged item
\* tag) the sub-frame has an item and its folder is still in the tree
BadFrameReached(c, h) ==
    /\ c.op = "update_filelist"
    /\ c.how \in {"header", "tag"}
    /\ Len(c.targets) >= c.k - 1
    /\ c.how = "tag" => (c.frames[c.k] # <<>> /\ GetItem(h, c.folders[c.k]) # NotFound)

\* the children the node id had before the call: those in the tree before,
\* none for a node that an earlier sub-frame of the same call created
ChildrenBefore(h, id) == IF id \in DOMAIN h THEN h[id].children ELSE <<>>

RequestFrame(path) ==
    _PROTO_PRE \o <<Len(Flatten([i \in 1..Len(path) |-> UnitsOf(path[i])]))>>
        \o EncodeUtf16le(path)

\* C13: the request sent for an accepted list of paths is the concatenation,
\* in list order, of one sub-frame per path: 03 00, a length byte equal to
\* the number of UTF-16 code units of the path, the path as UTF-16LE.
C13_RequestFrames ==
    (call.op = "update_filelist" /\ call.err # "ValueError") =>
        /\ call.sent = Flatten([i \in 1..Len(call.folders) |-> RequestFrame(call.folders[i])])
        /\ \A i \in 1..Len(call.folders) :
              2 * RequestFrame(call.folders[i])[3] = Len(EncodeUtf16le(call.folders[i]))

(************************ claims about the handshake ***********************)
\* C14: update_patch_urls sends 01 04 and, when the whole reply was received,
\* stores the primary URL and the CDN URL exactly as the reply carries them
\* in UTF-16LE, then keeps the detached descriptor, open, in sock_fd.
C14_HandshakeDecodes ==
    (patch.state # "none" /\ patch.received = patch.reply) =>
        /\ patch.state = "connected"
        /\ patch.sent = _PROTO
        /\ patch.patch_url = DecodeUnits(patch.urls[1])
        /\ patch.patch_cdn_url = DecodeUnits(patch.urls[2])
        /\ \E i \in 1..Len(os.handles) :
              os.handles[i].open /\ os.handles[i].fd = patch.sock_fd

\* C15: when fewer bytes were received than the reply's fixed fields and its
\* two length prefixes require, the handshake fails; it never completes.
C15_ShortReplyFails ==
    (patch.state # "none" /\ Len(patch.received) < Len(patch.reply)) =>
        patch.state = "failed"

(****************** claims about the connection's handles ******************)
PatchHolds == patch.state = "connected" /\ IsOpen(os.handles, patch.sock_fd)

ListHolds(i) == lists[i].alive /\ IsOpen(os.handles, lists[i].sock)

\* C16: the connection has one owner at a time: never do the Patch and a
\* PatchFileList, or two PatchFileList objects, both hold an open handle on it.
C16_OneOwner ==
    /\ \A i \in 1..Len(lists) : ~(PatchHolds /\ ListHolds(i))
    /\ \A i, j \in 1..Len(lists) : (i # j) => ~(ListHolds(i) /\ ListHolds(j))

\* C17: after the teardown of the Patch the connection was shut down once,
\* and every descriptor ever opened on it is closed and was closed once.
C17_ClosedOnce ==
    patch.state = "torn" =>
        /\ os.shutdowns = 1
        /\ \A i \in 1..Len(os.handles) :
              ~os.handles[i].open /\ os.handles[i].closes = 1

(*********************** claims about concurrent calls *********************)
Outstanding(t) == threads[t].pc \in {"sent", "received"}

\* C18: at most one exchange is outstanding on the connection at any time,
\* also when update_filelist is called from two threads: their sends and
\* receives do not interleave, and a call that succeeds has decoded the bytes
\* of its own response and no others.
C18_OneExchange ==
    /\ \A t, u \in 1..Len(threads) : (Outstanding(t) /\ Outstanding(u)) => t = u
    /\ \A t \in 1..Len(threads) :
          (threads[t].pc = "done" /\ threads[t].err = "none") =>
              threads[t].got = threads[t].resp

(************************ claims about download_raw ************************)
Failed(o) == ~(o.kind = "response" /\ o.code = HttpOk)

\* C19: download_raw opens the CDN URL first; it opens the primary URL if and
\* only if the CDN attempt failed with connection refused; every other
\* failure of the CDN attempt, a status other than 200 included, is raised
\* at once.
C19_CdnFirst ==
    dl.op = "download_raw" =>
        /\ Len(dl.contacted) >= 1
        /\ dl.contacted[1] = patch.patch_cdn_url \o dl.file_path
        /\ Len(dl.contacted) = 2 <=> dl.outcomes[1].kind = "refused"
        /\ Len(dl.contacted) = 2 => dl.contacted[2] = patch.patch_url \o dl.file_path
        /\ (Failed(dl.outcomes[1]) /\ dl.outcomes[1].kind # "refused") =>
              (dl.result.kind = "raise" /\ Len(dl.contacted) = 1)
        /\ ~Failed(dl.outcomes[1]) => dl.result = Returned(dl.outcomes[1].body)

\* C19 witness: the CDN refused the connection and the body came from the
\* primary URL, which differs from the CDN URL
C19_Witness ==
    /\ dl.op = "download_raw" /\ dl.outcomes[1].kind = "refused"
    /\ Len(dl.contacted) = 2 /\ dl.contacted[1] # dl.contacted[2]
    /\ dl.result = Returned(dl.outcomes[2].body) /\ ~Failed(dl.outcomes[2])

\* C20: download_raw returns the body of a 200 response or raises; when both
\* attempts fail, also with connection refused twice, it raises.
C20_BodyOrError ==
    dl.op = "download_raw" =>
        /\ dl.result.kind \in {"return", "raise"}
        /\ dl.result.kind = "return" =>
              \E i \in 1..Len(dl.contacted) :
                  ~Failed(dl.outcomes[i]) /\ dl.result.value = dl.outcomes[i].body
        /\ (\A i \in 1..2 : Failed(dl.outcomes[i])) => dl.result.kind = "raise"

(********************** claims about the nested map ************************)
\* a tree as a value: each node's record and its children in order
RECURSIVE Shape(_, _)
Shape(h, id) ==
    [record |-> h[id].record,
     children |-> [i \in 1..Len(h[id].children) |-> Shape(h, h[id].children[i])]]

\* C3: a tree dumped by get_dict and loaded by load_dict is the same tree:
\* names, content hashes, sizes, record types and child order at every depth.
C3_RoundTrip ==
    (pc = "loaded" /\ dump.recurse) =>
        /\ call.err = "none"
        /\ Shape(loaded, Root) = Shape(nodes, Root)

(******************* claims about the tree's invariants ********************)
\* C11: whatever listings and load_dict calls were made, only nodes whose
\* record is the root's or a Directory have children; a File node has none.
C11_OnlyDirectoriesHaveChildren ==
    \A id \in DOMAIN nodes :
        nodes[id].children # <<>> =>
            (nodes[id].record = None \/ IsDirectoryRecord(nodes[id].record))

(************************ claims about Patch.download **********************)
\* C21: download raises ValueError when neither dst_dir nor dst_file is
\* given, before any request is made and before any directory or file is
\* created.
C21_NoDestination ==
    (dl.op = "download" /\ dl.dst_dir = NoneStr /\ dl.dst_file = NoneStr) =>
        /\ dl.result = Raised("ValueError")
        /\ dl.contacted = <<>>
        /\ dl.made = <<>>
        /\ dl.created = <<>>

\* C21 witness: a download without destination, with a CDN that would have
\* answered
C21_Witness ==
    /\ dl.op = "download" /\ dl.dst_dir = NoneStr /\ dl.dst_file = NoneStr
    /\ dl.result = Raised("ValueError")
    /\ dl.outcomes[1].kind = "response" /\ dl.outcomes[1].code = HttpOk

(************************* claims about load_dict **************************)
\* the entries of the children list of the mapping m, if it has one
ChildMaps(m) ==
    IF m.kind = "OrderedDict" /\ "children" \in DOMAIN m.items THEN m.items.children
    ELSE <<>>

\* some entry of m, m included, is a named entry of a type other than 'file'
\* and 'folder'
RECURSIVE HasUnknownType(_)
HasUnknownType(m) ==
    \/ /\ m.kind = "OrderedDict"
       /\ "name" \in DOMAIN m.items /\ m.items.name # ROOT
       /\ "type" \in DOMAIN m.items /\ m.items.type \notin {"file", "folder"}
    \/ \E i \in 1..Len(ChildMaps(m)) : HasUnknownType(ChildMaps(m)[i])

\* some entry of m, m included, is not an OrderedDict
RECURSIVE HasPlainDict(_)
HasPlainDict(m) ==
    \/ m.kind # "OrderedDict"
    \/ \E i \in 1..Len(ChildMaps(m)) : HasPlainDict(ChildMaps(m)[i])

\* C22: load_dict fails with KeyError whenever an entry of the input, at any
\* depth, has a type that is neither 'file' nor 'folder'; the error reaches
\* the caller.
C22_UnknownTypeRaises ==
    (call.op = "load_dict" /\ HasUnknownType(call.map)) => call.err = "KeyError"

\* C23: load_dict fails with TypeError whenever the input, or an entry of a
\* children list at any depth, is not an OrderedDict.
C23_NotMappingRaises ==
    (call.op = "load_dict" /\ HasPlainDict(call.map)) => call.err = "TypeError"

(************************** claims about get_dict **************************)
\* the keys of the mapping m other than 'children' are those of the record r
\* of a node: 'ROOT' alone for a node without record, name, hash, type and
\* size for a file, name, hash and type for a directory
OwnKeys(m, r) ==
    IF r = None
    THEN DOMAIN m \ {"children"} = {"name"} /\ m.name = ROOT
    ELSE /\ m.name = r.name
         /\ m.hash = FormatHex(r.hash, HashHexLen)
         /\ IF r.tag = "FILE"
            THEN /\ DOMAIN m \ {"children"} = {"name", "hash", "type", "size"}
                 /\ m.type = "file" /\ m.size = r.data_length
            ELSE /\ DOMAIN m \ {"children"} = {"name", "hash", "type"}
                 /\ m.type = "folder"

\* m is the serialization of node id: its own keys, and a children list
\* exactly when recurse is set and the node has more than one child, holding
\* the serialization of every child in order
RECURSIVE Serialized(_, _, _, _)
Serialized(h, id, m, recurse) ==
    /\ m.kind = "OrderedDict"
    /\ OwnKeys(m.items, h[id].record)
    /\ ("children" \in DOMAIN m.items) <=> (recurse /\ Len(h[id].children) >= 2)
    /\ ("children" \in DOMAIN m.items) =>
          /\ Len(m.items.children) = Len(h[id].children)
          /\ \A i \in 1..Len(h[id].children) :
                Serialized(h, h[id].children[i], m.items.children[i], TRUE)

IsValueOf(n, b) ==
    /\ Len(n) <= 2 * Len(b)
    /\ n # <<>> => n[1] # 0
    /\ \A i \in 1..Len(b) :
          LET hi == 2 * i - 1 - (2 * Len(b) - Len(n))
              lo == 2 * i - (2 * Len(b) - Len(n))
          IN b[i] = (IF hi >= 1 THEN n[hi] ELSE 0) * 16 + (IF lo >= 1 THEN n[lo] ELSE 0)

\* the 32 bytes are small enough for the integers of the other specifications
SmallHash(b) == \A i \in 1..(HashLen - 3) : b[i] = 0

\* C25: every hash below 2^256 is written as exactly 64 lower-case
\* hexadecimal digits and parsed back to the same integer, and the 32 hash
\* bytes of an item are read as one big-endian unsigned integer.
C25_HashRoundTrip ==
    call.op = "hash" =>
        /\ IsValueOf(call.int, call.bytes)
        /\ Len(call.hex) = 64
        /\ \A i \in 1..Len(call.hex) : call.hex[i] \in (48..57) \cup (97..102)
        /\ \A i \in 1..HashLen :
              HexValue(call.hex[2 * i - 1]) * 16 + HexValue(call.hex[2 * i]) = call.bytes[i]
        /\ call.back = call.int
        /\ SmallHash(call.bytes) =>
              /\ FormatHex(IntFromBytes(call.bytes), HashHexLen) = call.hex
              /\ ParseHex(call.hex) = IntFromBytes(call.bytes)

\* C25 witness: the largest hash, 2^256 - 1
C25_Witness ==
    /\ call.op = "hash" /\ call.bytes = [i \in 1..HashLen |-> 255]
    /\ call.hex = [i \in 1..64 |-> 102]

(************************ claims about the lookup hash *********************)
\* the case-insensitive hash of a name: murmur2_32 of the lower-cased name
\* in UTF-16LE
LookupHashOf(name) == murmur2_32(EncodeUtf16le(Lower(name)))

\* C26: every node but the root, made by a listing or by load_dict, has as
\* hash the 32-bit hash of its lower-cased name in UTF-16LE; the root has none.
C26_LookupHash ==
    \A id \in DOMAIN nodes :
        IF nodes[id].parent = NoParent THEN nodes[id].hash = None
        ELSE nodes[id].record # None => nodes[id].hash = LookupHashOf(nodes[id].record.name)

(************************ C27, C28: gen_walk *******************************)
RECURSIVE IsDescendant(_, _, _)
\* d lies strictly below a
IsDescendant(h, a, d) ==
    /\ h[d].parent # NoParent
    /\ h[d].parent = a \/ IsDescendant(h, a, h[d].parent)

Walked == call.op = "gen_walk"

\* the position of a node among its parent's children
ChildIndex(h, id) ==
    CHOOSE k \in 1..Len(h[h[id].parent].children) : h[h[id].parent].children[k] = id

\* C27: gen_walk yields its pairs in pre-order: the start node first with depth
\* 0, a node before every one of its descendants, and every other node after
\* its parent with a depth one more than the parent's.
C27_PreOrder ==
    Walked =>
        /\ Len(call.pairs) >= 1
        /\ call.pairs[1] = [node |-> call.start, depth |-> 0]
        /\ \A i, j \in 1..Len(call.pairs) :
              IsDescendant(nodes, call.pairs[i].node, call.pairs[j].node) => i < j
        /\ \A j \in 2..Len(call.pairs) :
              \E i \in 1..(j - 1) :
                  /\ call.pairs[i].node = nodes[call.pairs[j].node].parent
                  /\ call.pairs[j].depth = call.pairs[i].depth + 1

\* a walk that yielded a node, a child of it and a child of that child
C27_Witness ==
    /\ Walked
    /\ \E i, j \in 1..Len(call.pairs) :
          /\ call.pairs[j].depth = 2
          /\ call.pairs[i].depth = 1
          /\ IsDescendant(nodes, call.pairs[i].node, call.pairs[j].node)

\* the nodes a walk from start with max_depth is to yield
WithinDepth(h, start, max_depth) ==
    {id \in Subtree(h, start) :
        max_depth = Unbounded \/ Depth(h, id) - Depth(h, start) <= max_depth}

\* C28: with max_depth = d >= 0 the walk yields exactly the nodes at most d
\* levels below the start node, each once, siblings in the order of the
\* children list, and none deeper than d; with the default max_depth it
\* yields every node of the subtree exactly once.
C28_ExactlyWithinDepth ==
    Walked =>
        /\ {call.pairs[i].node : i \in 1..Len(call.pairs)}
             = WithinDepth(nodes, call.start, call.max_depth)
        /\ \A i, j \in 1..Len(call.pairs) :
              call.pairs[i].node = call.pairs[j].node => i = j
        /\ \A i \in 1..Len(call.pairs) :
              /\ call.pairs[i].depth = Depth(nodes, call.pairs[i].node) - Depth(nodes, call.start)
              /\ call.max_depth # Unbounded => call.pairs[i].depth <= call.max_depth
        /\ \A i, j \in 2..Len(call.pairs) :
              (/\ nodes[call.pairs[i].node].parent = nodes[call.pairs[j].node].parent
               /\ ChildIndex(nodes, call.pairs[i].node) < ChildIndex(nodes, call.pairs[j].node))
                  => i < j

\* a bounded walk that left nodes of the subtree out and yielded two siblings
C28_Witness ==
    /\ Walked
    /\ call.max_depth = 1
    /\ Subtree(nodes, call.start) # WithinDepth(nodes, call.start, 1)
    /\ \E i, j \in 2..Len(call.pairs) :
          /\ i # j
          /\ nodes[call.pairs[i].node].parent = nodes[call.pairs[j].node].parent

\* an unbounded walk of a tree three levels high
C28_WitnessUnbounded ==
    /\ Walked
    /\ call.max_depth = Unbounded
    /\ \E i \in 1..Len(call.pairs) : call.pairs[i].depth = 2

(********************** C29: Patch.__del__ *********************************)
Disposed == patch.state = "torn"

\* C29: on disposal the Patch's socket is shut down and then closed; an OSError
\* of the shutdown is passed over and the close is attempted all the same; an
\* OSError of the close reaches the code that disposed of the Patch.
C29_TeardownErrors ==
    Disposed =>
        /\ Len(patch.steps) = 2
        /\ patch.steps[1].op = "shutdown"
        /\ patch.steps[2].op = "close"
        /\ ~patch.steps[2].ok => patch.seen = "OSError"
        /\ patch.steps[2].ok => patch.seen = "none"

\* the same, for what __del__ raises rather than for what reaches the code
\* that disposed of the Patch
C29_DelRaises ==
    Disposed =>
        /\ Len(patch.steps) = 2
        /\ patch.steps[1].op = "shutdown"
        /\ patch.steps[2].op = "close"
        /\ ~patch.steps[2].ok => patch.raised = "OSError"
        /\ patch.steps[2].ok => patch.raised = "none"

(************* C30: one sub-frame per requested path ***********************)
\* the bytes of the response to a call, sub-frame after sub-frame
SubFrames(c) ==
    Flatten([i \in 1..Len(c.folders) |->
                FrameBytes(c.folders[i], c.frames[i], IF i = c.k THEN c.how ELSE "none")])

\* no later sub-frame of the call was applied to the node of sub-frame i
LastFor(c, i) == \A j \in (i + 1)..Len(c.targets) : c.targets[j] # c.targets[i]

\* a call of update_filelist that went as far as the exchange
Exchanged == ncalls' = ncalls + 1 /\ call'.sent # <<>> /\ call'.frames # <<>>

\* C30: a call that succeeds has read one sub-frame per requested path, in the
\* order of the request, and has given the items of the i-th sub-frame to the
\* node of the i-th path; a folder name in a sub-frame that differs from the
\* requested path changes nothing: the call ends as it does when the server
\* sends the requested name.
C30_OneFramePerPath ==
    [][Exchanged =>
        /\ call'.err = "none" =>
              /\ Len(call'.targets) = Len(call'.folders)
              /\ consumed' = SubFrames(call')
              /\ call'.targets[1] = GetItem(nodes, call'.folders[1])
              /\ \A i \in 1..Len(call'.targets) :
                    call'.targets[i] \in DOMAIN nodes' =>
                        /\ GetItem(nodes', call'.folders[i]) = call'.targets[i]
                        /\ LastFor(call', i) =>
                              HoldsListing(nodes', call'.targets[i], call'.frames[i])
        /\ call'.how = "echo" =>
              /\ call'.err = AnswerTo(call'.folders, call'.frames, "ok", call'.k).io.err
              /\ call'.targets = AnswerTo(call'.folders, call'.frames, "ok", call'.k).targets
              /\ nodes' = AnswerTo(call'.folders, call'.frames, "ok", call'.k).h
    ]_vars

\* a call for two folders succeeded on two different listings, the second
\* sub-frame carrying another name than the second path
C30_Witness ==
    /\ call.op = "update_filelist" /\ call.err = "none"
    /\ Len(call.folders) = 2 /\ Len(call.targets) = 2
    /\ call.how = "echo" /\ call.k = 2
    /\ call.frames[1] # call.frames[2]
    /\ call.frames[2] # <<>>
    /\ nodes[call.targets[2]].children # <<>>

(*************** C31: what a listing leaves alone **************************)
\* the nodes the paths of a call resolve to before the call
NamedNodes(h, folders) ==
    {GetItem(h, folders[i]) : i \in 1..Len(folders)} \ {NotFound}

\* id lies strictly below a node named in the call
BelowNamed(h, folders, id) ==
    \E n \in NamedNodes(h, folders) : IsDescendant(h, n, id)

\* a step that is a call of update_filelist
Called == ncalls' = ncalls + 1 /\ call'.op = "update_filelist"

\* two values of a node that differ at most in the children
SameButChildren(a, b) ==
    a.record = b.record /\ a.hash = b.hash /\ a.parent = b.parent

\* C31: a call of update_filelist, successful or not, keeps the root node,
\* keeps record, hash and parent of every node that is not below a folder
\* named in the call (the named folders among them: they are filled in
\* place), and keeps the children of every such node that is not itself named.
C31_OnlyNamedChildrenChange ==
    [][Called =>
        /\ Root \in DOMAIN nodes'
        /\ nodes'[Root].parent = NoParent
        /\ \A id \in DOMAIN nodes :
              ~BelowNamed(nodes, call'.folders, id) =>
                  /\ id \in DOMAIN nodes'
                  /\ SameButChildren(nodes[id], nodes'[id])
                  /\ id \notin NamedNodes(nodes, call'.folders) =>
                        nodes'[id].children = nodes[id].children
    ]_vars

\* a call that refilled a listed folder under a root with another child
C31_Witness ==
    /\ call.op = "update_filelist" /\ call.err = "none"
    /\ Len(call.folders) = 1 /\ call.folders[1] # <<>>
    /\ Len(nodes[Root].children) = 2
    /\ nodes[call.targets[1]].children # <<>>

(************* C32: lookups after the checks have passed *******************)
\* C32: a call whose paths passed the checks and whose request was sent never
\* fails in looking up a requested path, also when an earlier sub-frame of
\* the same call replaced the children of the path's parent folder.
C32_LookupNeverFails ==
    (call.op = "update_filelist" /\ call.sent # <<>>) => call.err # "FileNotFoundError"

(*************** C33: a folder listed again ********************************)
\* C33: after a successful update_filelist([F]) every child of F is a new
\* node without children, whatever F held before; and a call that names a
\* path which does not resolve in the tree is rejected with ValueError, as
\* every path below a child of F then is.
C33_RelistingResets ==
    [][Called =>
        /\ (call'.err = "none" /\ Len(call'.folders) = 1) =>
              \A j \in 1..Len(nodes'[call'.targets[1]].children) :
                  /\ nodes'[call'.targets[1]].children[j] \notin DOMAIN nodes
                  /\ nodes'[nodes'[call'.targets[1]].children[j]].children = <<>>
        /\ call'.flaws.unknown => (call'.err = "ValueError" /\ call'.sent = <<>>)
    ]_vars

\* a folder was listed again that held a listed directory: the call dropped
\* a directory with children, and the folder again holds a directory
C33_Witness ==
    /\ call.op = "update_filelist" /\ call.err = "none"
    /\ Len(call.folders) = 1
    /\ \E d \in call.dropped : d.children # <<>> /\ IsDirectoryRecord(d.record)
    /\ \E j \in 1..Len(nodes[call.targets[1]].children) :
          IsDirectoryRecord(nodes[nodes[call.targets[1]].children[j]].record)

(*************** C34: frame boundaries between calls ***********************)
IsPrefix(s, t) == Len(s) <= Len(t) /\ s = SubSeq(t, 1, Len(s))

\* the server sent the whole response, damaged nowhere, in one or two segments
WellFormed(c) == c.how \in {"ok", "split1", "splitEnd"}

\* C34: when the server answers every request with one well-formed response,
\* a call starts with nothing pending on the connection, its buffer and the
\* bytes it decodes are the beginning of its own response, and after a
\* successful call the buffer is that response, read to its end, and nothing
\* is left on the connection.
C34_FrameBoundary ==
    [][(Exchanged /\ WellFormed(call')) =>
        /\ sockbuf = <<>> /\ wire = <<>>
        /\ IsPrefix(data', SubFrames(call'))
        /\ consumed' = SubSeq(data', 1, pos')
        /\ call'.err = "none" =>
              /\ data' = SubFrames(call')
              /\ pos' = Len(data')
              /\ sockbuf' = <<>> /\ wire' = <<>>
    ]_vars

\* a second successful call on the connection, answered in two segments,
\* after a call that left its response in the buffer
C34_Witness ==
    /\ call.op = "update_filelist" /\ call.err = "none"
    /\ ncalls >= 2
    /\ call.how = "splitEnd"
    /\ Len(call.folders) = 2
    /\ pos = Len(data) /\ data # <<>>

(*************** C35: parents and children agree ***************************)
\* how often id stands in a children list of the tree
Mentions(h, id) ==
    Cardinality(UNION {{<<n, j>> : j \in {k \in 1..Len(h[n].children) :
                                                h[n].children[k] = id}} : n \in DOMAIN h})

\* C35: in every state the tree makes of listings and load_dict calls, each
\* child of a node has that node as parent, the root has no parent, and no
\* node stands in two children lists or twice in one.
C35_ParentChild ==
    /\ nodes[Root].parent = NoParent
    /\ \A id \in DOMAIN nodes :
          /\ \A j \in 1..Len(nodes[id].children) :
                /\ nodes[id].children[j] \in DOMAIN nodes
                /\ nodes[nodes[id].children[j]].parent = id
          /\ Mentions(nodes, id) <= 1
          /\ Mentions(nodes, Root) = 0

(*************** C36: load_dict applied again *****************************)
\* the number of children the mapping m describes for its node
Described(m) == IF "children" \in DOMAIN m.items THEN Len(m.items.children) ELSE 0

\* a step that is a load_dict call which raised nothing, on a mapping in
\* which every entry is an OrderedDict of a known type
Loaded ==
    /\ ncalls' = ncalls + 1
    /\ call'.op = "load_dict" /\ call'.err = "none"
    /\ ~HasUnknownType(call'.map) /\ ~HasPlainDict(call'.map)

\* C36: load_dict leaves its target with exactly the children the mapping
\* describes, whatever children the target had before; so applying the same
\* mapping a second time changes nothing.
C36_LoadReplacesChildren ==
    [][Loaded => Len(nodes'[call'.self].children) = Described(call'.map)]_vars

(*************** C37: download fetches before it writes ********************)
\* C37: download opens the destination for writing only with the body that
\* download_raw returned: a call in which download_raw raised, or returned no
\* body, has neither created nor truncated the destination file.
C37_FetchBeforeWrite ==
    (dl.op = "download" /\ dl.result.kind = "raise") => dl.created = <<>>

(*************** C38: find_template ****************************************)
\* The texts the claim describes, read off the tokens: depth is 0 outside
\* an invocation of the template; inside, every '{{' (that of a nested
\* invocation of the template too) is closed by its own '}}', and the '}}'
\* that brings the depth back to 0 closes the invocation.
RefStep(st, t) ==
    IF st.depth = 0
    THEN IF t.tid = "template" THEN [st EXCEPT !.depth = 1]
         ELSE [st EXCEPT !.texts[Len(st.texts)] = @ \o t.text]
    ELSE IF t.tid \in {"template", "l_brace"} THEN [st EXCEPT !.depth = @ + 1]
    ELSE IF t.tid = "r_brace"
    THEN [st EXCEPT !.depth = @ - 1,
                    !.texts = IF st.depth = 1 THEN Append(@, <<>>) ELSE @]
    ELSE st

RECURSIVE RefTexts(_, _, _)
RefTexts(st, tokens, i) ==
    IF i > Len(tokens) THEN st.texts ELSE RefTexts(RefStep(st, tokens[i]), tokens, i + 1)

\* C38: texts has one element more than invocations of the template were
\* closed, and holds the wikitext around these invocations; what is nested in
\* '{{ }}' inside an invocation, a nested invocation of the same template
\* included, does not end it early; the brace count never goes below 0.
C38_TextsAroundTemplates ==
    found.op = "find_template" =>
        /\ found.texts = RefTexts([texts |-> <<<<>>>>, depth |-> 0], found.tokens, 1)
        /\ found.low >= 0

(*************** C39: WikiCondition ****************************************)
\* the template occurs in the page
Occurs(page) == Len(find_template(page).texts) > 1

\* the calls with a page before call i
PageCallsBefore(log, i) == {j \in 1..(i - 1) : log[j].page # NoneStr}

\* call i is in the condition phase: it is the first call with a page, or the
\* last call with a page before it was a text call or returned False
InConditionPhase(log, i) ==
    \/ PageCallsBefore(log, i) = {}
    \/ log[CHOOSE j \in PageCallsBefore(log, i) :
               \A k \in PageCallsBefore(log, i) : k <= j].ret # Truth(TRUE)

\* C39: calls with a page alternate between condition and text: a condition
\* call returns True exactly when the template occurs in its page, the call
\* after a True returns the text made from the parse of its own page, and no
\* call returns text made from the parse of another, earlier page.
C39_NoLeakBetweenPages ==
    cond.op = "WikiCondition" =>
        \A i \in 1..Len(cond.log) :
            cond.log[i].page # NoneStr =>
                IF InConditionPhase(cond.log, i)
                THEN cond.log[i].ret = Truth(Occurs(cond.log[i].page))
                ELSE /\ cond.log[i].ret.kind = "text"
                     /\ cond.log[i].ret.of = cond.log[i].page

====
